---- MODULE Spec2Model ----
(***************************************************************************)
(* Model of the diff engine of Staged (src-tauri/src/git/diff.rs and       *)
(* src-tauri/src/git/diff/mod.rs): the hunk synthesizer, the alignment     *)
(* builder and the side-by-side row builder.                               *)
(*                                                                         *)
(* Conventions.  Option<T> is a sequence of length 0 (None) or 1 (Some).   *)
(* A String is a sequence of characters; characters are naturals, NL is    *)
(* the newline.  Vec indices stay 0-based as in the code: v[i] of the code *)
(* is v[i + 1] here.                                                       *)
(***************************************************************************)
EXTENDS Integers, Sequences, FiniteSets, TLC

VARIABLES
    entry,              \* which public function is running
    old_file_content,   \* Option<String>: the "before" side
    new_file_content,   \* Option<String>: the "after" side
    git_hunks,          \* hunks the line diff of libgit2 reports for the two sides
    hunks,              \* hunks of the running call / of its result
    old_content,        \* Vec<DiffRow> of the left pane
    new_content,        \* Vec<DiffRow> of the right pane
    old_idx,            \* cursor into old_lines
    new_idx,            \* cursor into new_lines
    hunk_i,             \* index of the hunk being processed (0-based)
    line_i,             \* index of the hunk line being processed (0-based)
    pending_removed,    \* Vec<DiffLine>
    pending_added,      \* Vec<DiffLine>
    ranges,             \* Vec<Range> of get_ref_diff
    status,             \* FileDiff.status of get_ref_diff
    is_binary,          \* FileDiff.is_binary
    result,             \* "none" | "ok" | "err"
    pc,                 \* position inside the running function
    RUNNING_ACTIONS,    \* executor: execution id -> Option of the run whose stop_tx the handle holds
    runs,               \* executor: the tasks spawned by run_action, in call order
    events,             \* executor: the action-complete events emitted, by run
    last_stop,          \* executor: the id and the return of the last stop_action call
    plugins,            \* PluginManager.plugins: name -> Option of the plugin's state and last init return
    subscriptions,      \* EventDispatcher.subscriptions: event name -> Vec<EventSubscription>
    subscribed,         \* every subscribe call made, in call order
    commands,           \* PluginCommandRegistry.commands: full name -> Option<RegisteredCommand>
    items,              \* MenuRegistry.items: full id -> Option<PluginMenuItem>
    last_call,          \* the last call into the plugin system: what it returned, the plugin functions it called
    reviews,            \* review store: the ids in table reviews
    reviewed_files,     \* review store: the rows <<review_id, file_path>> of table reviewed_files
    comments,           \* review store: the rows [id, review_id] of table comments
    edits,              \* review store: the rows [id, review_id] of table edits
    store_calls,        \* review store: per thread, the call it is in or has made last
    marks,              \* per diff and file, the last of mark_reviewed, unmark_reviewed and delete called
    project_db,         \* ProjectStore: tables projects, artifacts, artifact_context, sessions
    chat_db             \* ChatStore: tables chat_sessions, chat_messages, chat_tool_calls

diff_vars == <<entry, old_file_content, new_file_content, git_hunks, hunks,
               old_content, new_content, old_idx, new_idx, hunk_i, line_i,
               pending_removed, pending_added, ranges, status, is_binary, result, pc>>

executor_vars == <<RUNNING_ACTIONS, runs, events, last_stop>>

plugin_vars == <<plugins, subscriptions, subscribed, commands, items, last_call>>

review_vars == <<reviews, reviewed_files, comments, edits, store_calls, marks>>

store_vars == <<review_vars, project_db, chat_db>>

\* what the diff functions never touch
outside_diff == <<executor_vars, plugin_vars, store_vars>>

\* what the executor never touches
outside_executor == <<diff_vars, plugin_vars, store_vars>>

\* what the plugin system never touches
outside_plugin == <<diff_vars, executor_vars, store_vars>>

\* what the review store never touches
outside_review == <<diff_vars, executor_vars, plugin_vars, project_db, chat_db>>

\* what the project store and the chat store never touch
outside_stores == <<diff_vars, executor_vars, plugin_vars, review_vars>>

vars == <<diff_vars, executor_vars, plugin_vars, store_vars>>

----------------------------------------------------------------------------
(* Bounds of the model.                                                    *)

\* longest edit script (kept, removed and added lines together)
MaxOps == 4
\* longest content of a file that exists on one side only
MaxStr == 3

----------------------------------------------------------------------------
(* Option, strings and str::lines.                                         *)

None == <<>>

Some(x) == <<x>>

IsSome(o) == Len(o) = 1

UnwrapOr(o, d) == IF IsSome(o) THEN o[1] ELSE d

\* the characters of the model: NUL, newline, 'a', 'b'
NUL == 0

NL == 10

Chars == {NUL, NL, 97, 98}

\* index of the first NL of s at or after position i, Len(s) + 1 if none
RECURSIVE FindNL(_, _)
FindNL(s, i) ==
    IF i > Len(s) THEN Len(s) + 1
    ELSE IF s[i] = NL THEN i
    ELSE FindNL(s, i + 1)

\* str::lines(): the pieces between newlines; a final newline ends the last
\* line and starts no further one, so "" has no line and "\n" has one.
\* (Carriage returns, which lines() strips before a newline, are not among
\* the characters of the model.)
RECURSIVE LinesFrom(_, _)
LinesFrom(s, i) ==
    IF i > Len(s) THEN <<>>
    ELSE LET j == FindNL(s, i)
         IN  <<SubSeq(s, i, j - 1)>> \o LinesFrom(s, j + 1)

Lines(s) == LinesFrom(s, 1)

\* Option<String> -> Vec<&str>:  .as_ref().map(|s| s.lines().collect()).unwrap_or_default()
ContentLines(content) == IF IsSome(content) THEN Lines(content[1]) ELSE <<>>

\* all strings of at most n characters
Strings(n) == UNION {[1..k -> Chars] : k \in 0..n}

----------------------------------------------------------------------------
(* Sequence helpers.                                                       *)

RECURSIVE SumSeq(_)
SumSeq(s) == IF s = <<>> THEN 0 ELSE Head(s) + SumSeq(Tail(s))

RECURSIVE FlattenSeq(_)
FlattenSeq(ss) == IF ss = <<>> THEN <<>> ELSE Head(ss) \o FlattenSeq(Tail(ss))

\* Vec::insert(i, x), i 0-based
InsertAt(v, i, x) == SubSeq(v, 1, i) \o <<x>> \o SubSeq(v, i + 1, Len(v))

\* slice.get(i).unwrap_or(&""), i 0-based
GetOrEmpty(v, i) == IF i < Len(v) THEN v[i + 1] ELSE <<>>

Count(s, P(_)) == Cardinality({i \in DOMAIN s : P(s[i])})

----------------------------------------------------------------------------
(* Data model: DiffLine, DiffHunk, DiffRow, Range.                         *)

DiffLine(line_type, old_lineno, new_lineno, content) ==
    [line_type |-> line_type, old_lineno |-> old_lineno,
     new_lineno |-> new_lineno, content |-> content]

DiffHunk(old_start, old_lines, new_start, new_lines, lines) ==
    [old_start |-> old_start, old_lines |-> old_lines,
     new_start |-> new_start, new_lines |-> new_lines, lines |-> lines]

LineRow(line) == [type |-> "Line", line |-> line]

CollapseRow(count, start_line, other_pane_index) ==
    [type |-> "Collapse", count |-> count, start_line |-> start_line,
     other_pane_index |-> other_pane_index]

Range(before_start, before_end, after_start, after_end, changed) ==
    [before |-> [start |-> before_start, end |-> before_end],
     after |-> [start |-> after_start, end |-> after_end],
     changed |-> changed]

----------------------------------------------------------------------------
(* The two sides of a file and the hunks libgit2 reports for them, derived *)
(* from an edit script: a sequence of K (line kept), R (line removed) and  *)
(* A (line added).  The line of step p has a one-character text of its   *)
(* own, so every line of a file is distinguishable.                        *)

Ops == {"K", "R", "A"}

EditScripts == UNION {[1..n -> Ops] : n \in 0..MaxOps}

OldSide == {"K", "R"}

NewSide == {"K", "A"}

\* number of old (new) lines among the steps 1..p
OldNo(ops, p) == Cardinality({q \in 1..p : ops[q] \in OldSide})

NewNo(ops, p) == Cardinality({q \in 1..p : ops[q] \in NewSide})

\* the text of the line of step p: 'A', 'B', ...
LineText(p) == <<64 + p>>

\* the texts of the lines of one side, in order
RECURSIVE SideLines(_, _, _)
SideLines(ops, p, side) ==
    IF p > Len(ops) THEN <<>>
    ELSE (IF ops[p] \in side THEN <<LineText(p)>> ELSE <<>>) \o SideLines(ops, p + 1, side)

\* the file text of a list of lines: a newline after each line, the last
\* one only if the file ends with a newline
RECURSIVE JoinLines(_, _)
JoinLines(ls, final_newline) ==
    IF ls = <<>> THEN <<>>
    ELSE IF Len(ls) = 1 THEN (IF final_newline THEN Head(ls) \o <<NL>> ELSE Head(ls))
    ELSE Head(ls) \o <<NL>> \o JoinLines(Tail(ls), final_newline)

\* the DiffLine the line callback pushes for step p: libgit2 gives a context
\* line both numbers, a removed line the old one, an added line the new one
ScriptLine(ops, p) ==
    CASE ops[p] = "K" -> DiffLine("context", Some(OldNo(ops, p)), Some(NewNo(ops, p)), LineText(p))
      [] ops[p] = "R" -> DiffLine("removed", Some(OldNo(ops, p)), None, LineText(p))
      [] ops[p] = "A" -> DiffLine("added", None, Some(NewNo(ops, p)), LineText(p))

\* the hunk of the steps s..e.  With base 1 the starts are the ones of a
\* unified diff header: the number of the first line of the hunk on that
\* side, or of the line before it when the hunk has no line on that side.
\* With base 0 they are the number of lines before the hunk.
ScriptHunk(ops, s, e, base) ==
    LET old_before == OldNo(ops, s - 1)
        new_before == NewNo(ops, s - 1)
        old_lines  == OldNo(ops, e) - old_before
        new_lines  == NewNo(ops, e) - new_before
    IN  DiffHunk(IF base = 1 /\ old_lines > 0 THEN old_before + 1 ELSE old_before,
                 old_lines,
                 IF base = 1 /\ new_lines > 0 THEN new_before + 1 ELSE new_before,
                 new_lines,
                 [i \in 1..(e - s + 1) |-> ScriptLine(ops, s + i - 1)])

\* last step of the run of in-hunk steps that starts at s
RECURSIVE RunEnd(_, _, _)
RunEnd(n, inhunk, s) ==
    IF s + 1 <= n /\ (s + 1) \in inhunk THEN RunEnd(n, inhunk, s + 1) ELSE s

\* the hunks of a script: one per maximal run of in-hunk steps
RECURSIVE ScriptHunks(_, _, _, _)
ScriptHunks(ops, inhunk, p, base) ==
    IF p > Len(ops) THEN <<>>
    ELSE IF p \notin inhunk THEN ScriptHunks(ops, inhunk, p + 1, base)
    ELSE LET e == RunEnd(Len(ops), inhunk, p)
         IN  <<ScriptHunk(ops, p, e, base)>> \o ScriptHunks(ops, inhunk, e + 1, base)

Changed(ops) == {p \in DOMAIN ops : ops[p] # "K"}

\* the kept lines a diff may show as context inside a hunk: every run of
\* in-hunk steps holds a changed line
ContextChoices(ops) ==
    {ctx \in SUBSET (DOMAIN ops \ Changed(ops)) :
        \A p \in ctx :
            \E q \in Changed(ops) :
                \A r \in DOMAIN ops :
                    ((p <= r /\ r <= q) \/ (q <= r /\ r <= p)) => r \in ctx \cup Changed(ops)}

\* a side without lines is an absent file or an empty one
SideContents(ls, final_newline) ==
    IF ls = <<>> THEN {None, Some(<<>>)} ELSE {Some(JoinLines(ls, final_newline))}

----------------------------------------------------------------------------
(* build_full_file_side_by_side and flush_pending_changes (git/diff.rs).   *)

OldLines == ContentLines(old_file_content)

NewLines == ContentLines(new_file_content)

LineRows(lines) == [i \in 1..Len(lines) |-> LineRow(lines[i])]

\* FirstLineno reading the last pending line instead of the first
FirstLinenoOfLast(pending, field) ==
    IF pending = <<>> THEN 0 ELSE UnwrapOr(pending[Len(pending)][field], 0)

\* the starting line number of a collapse: .first().and_then(|l| l.lineno).unwrap_or(0)
FirstLineno(pending, field) ==
    IF pending = <<>> THEN 0 ELSE UnwrapOr(pending[1][field], 0)

\* AdjustedNewIndex without the shift past the new pane's collapse
AdjustedNewIndexUnshifted(new_insert_index, removed_count) == new_insert_index

\* where the old pane's collapse points: the first added row of the new
\* pane, which sits behind the new pane's collapse if there is one
AdjustedNewIndex(new_insert_index, removed_count) ==
    IF removed_count > 0 THEN new_insert_index + 1 ELSE new_insert_index

\* OldCollapsePosition in front of the removed rows
OldCollapsePositionFront(old_insert_index, removed_count) == old_insert_index

\* position of the old pane's collapse: after the removed rows
OldCollapsePosition(old_insert_index, removed_count) ==
    old_insert_index + removed_count

\* CollapseFor with count and start_line in each other's place
CollapseForSwapped(pending, field, other_pane_index) ==
    CollapseRow(FirstLineno(pending, field), Len(pending), other_pane_index)

\* the collapse row that stands for a run of pending lines
CollapseFor(pending, field, other_pane_index) ==
    CollapseRow(Len(pending), FirstLineno(pending, field), other_pane_index)

\* Drained leaving the lines in the buffer
DrainedNothing(pending) == pending

\* what the loop over pending.drain(..) leaves of a buffer
Drained(pending) == <<>>

\* flush_pending_changes: the two panes and the two buffers after the call
FlushPendingChanges(oc, nc, removed, added) ==
    IF removed = <<>> /\ added = <<>>
    THEN [old_content |-> oc, new_content |-> nc,
          pending_removed |-> removed, pending_added |-> added]
    ELSE LET removed_count    == Len(removed)
             added_count      == Len(added)
             old_insert_index == Len(oc)
             new_insert_index == Len(nc)
             oc1 == oc \o LineRows(removed)
             nc1 == nc \o LineRows(added)
             nc2 == IF removed_count > 0
                    THEN InsertAt(nc1, new_insert_index,
                                  CollapseFor(removed, "old_lineno", old_insert_index))
                    ELSE nc1
             oc2 == IF added_count > 0
                    THEN InsertAt(oc1, OldCollapsePosition(old_insert_index, removed_count),
                                  CollapseFor(added, "new_lineno",
                                              AdjustedNewIndex(new_insert_index, removed_count)))
                    ELSE oc1
         IN  [old_content |-> oc2, new_content |-> nc2,
              pending_removed |-> Drained(removed), pending_added |-> Drained(added)]

\* the rows of an unchanged line: the text is read from the old file for
\* both panes
UnchangedOldRow(oi) == LineRow(DiffLine("context", Some(oi + 1), None, GetOrEmpty(OldLines, oi)))

\* UnchangedNewRow numbering the lines from 0
UnchangedNewRowFromZero(oi, ni) == LineRow(DiffLine("context", None, Some(ni), GetOrEmpty(OldLines, oi)))

UnchangedNewRow(oi, ni) == LineRow(DiffLine("context", None, Some(ni + 1), GetOrEmpty(OldLines, oi)))

\* loop condition of the unchanged lines before a hunk
GapCondition(oi, ni, hunk) == oi + 1 < hunk.old_start /\ ni + 1 < hunk.new_start

\* loop condition of the unchanged lines after the last hunk
TailCondition(oi, ni) == oi < Len(OldLines) /\ ni < Len(NewLines)

CurrentHunk == hunks[hunk_i + 1]

CurrentLine == CurrentHunk.lines[line_i + 1]

inputs == <<entry, old_file_content, new_file_content, git_hunks>>

\* the call: no rows yet, both cursors at the first line
BuildBegin ==
    /\ pc = "call"
    /\ entry \in {"get_file_diff", "build_full_file_side_by_side"}
    /\ hunks' = git_hunks
    /\ old_content' = <<>>
    /\ new_content' = <<>>
    /\ old_idx' = 0
    /\ new_idx' = 0
    /\ hunk_i' = 0
    /\ pc' = IF git_hunks = <<>> THEN "tail" ELSE "gap"
    /\ UNCHANGED <<inputs, line_i, pending_removed, pending_added, ranges, status, is_binary, result>>
    /\ UNCHANGED outside_diff

\* one unchanged line before the current hunk, to both panes
GapLine ==
    /\ pc = "gap"
    /\ GapCondition(old_idx, new_idx, CurrentHunk)
    /\ old_content' = Append(old_content, UnchangedOldRow(old_idx))
    /\ new_content' = Append(new_content, UnchangedNewRow(old_idx, new_idx))
    /\ old_idx' = old_idx + 1
    /\ new_idx' = new_idx + 1
    /\ UNCHANGED <<inputs, hunks, hunk_i, line_i, pending_removed, pending_added,
                   ranges, status, is_binary, result, pc>>
    /\ UNCHANGED outside_diff

\* the gap is done: fresh buffers, first line of the hunk
GapEnd ==
    /\ pc = "gap"
    /\ ~GapCondition(old_idx, new_idx, CurrentHunk)
    /\ pending_removed' = <<>>
    /\ pending_added' = <<>>
    /\ line_i' = 0
    /\ pc' = "hunk"
    /\ UNCHANGED <<inputs, hunks, old_content, new_content, old_idx, new_idx, hunk_i,
                   ranges, status, is_binary, result>>
    /\ UNCHANGED outside_diff

\* a context line of the hunk: flush, then the line to both panes
HunkContextLine ==
    /\ pc = "hunk"
    /\ line_i < Len(CurrentHunk.lines)
    /\ CurrentLine.line_type = "context"
    /\ LET f == FlushPendingChanges(old_content, new_content, pending_removed, pending_added)
           line == CurrentLine
       IN  /\ old_content' = Append(f.old_content,
                   LineRow(DiffLine("context", line.old_lineno, None, line.content)))
           /\ new_content' = Append(f.new_content,
                   LineRow(DiffLine("context", None, line.new_lineno, line.content)))
           /\ pending_removed' = f.pending_removed
           /\ pending_added' = f.pending_added
           /\ old_idx' = UnwrapOr(line.old_lineno, old_idx)
           /\ new_idx' = UnwrapOr(line.new_lineno, new_idx)
    /\ line_i' = line_i + 1
    /\ UNCHANGED <<inputs, hunks, hunk_i, ranges, status, is_binary, result, pc>>
    /\ UNCHANGED outside_diff

\* FlushFirst that never asks for a flush
FlushFirstNever(added) == FALSE

\* a removed line flushes first: if !pending_added.is_empty()
FlushFirst(added) == added # <<>>

\* a removed line: buffered, after a flush if added lines are pending
HunkRemovedLine ==
    /\ pc = "hunk"
    /\ line_i < Len(CurrentHunk.lines)
    /\ CurrentLine.line_type = "removed"
    /\ LET f == IF FlushFirst(pending_added)
                THEN FlushPendingChanges(old_content, new_content,
                                         pending_removed, pending_added)
                ELSE [old_content |-> old_content, new_content |-> new_content,
                      pending_removed |-> pending_removed, pending_added |-> pending_added]
       IN  /\ old_content' = f.old_content
           /\ new_content' = f.new_content
           /\ pending_removed' = Append(f.pending_removed, CurrentLine)
           /\ pending_added' = f.pending_added
    /\ old_idx' = UnwrapOr(CurrentLine.old_lineno, old_idx)
    /\ line_i' = line_i + 1
    /\ UNCHANGED <<inputs, hunks, new_idx, hunk_i, ranges, status, is_binary, result, pc>>
    /\ UNCHANGED outside_diff

\* an added line: buffered
HunkAddedLine ==
    /\ pc = "hunk"
    /\ line_i < Len(CurrentHunk.lines)
    /\ CurrentLine.line_type = "added"
    /\ pending_added' = Append(pending_added, CurrentLine)
    /\ new_idx' = UnwrapOr(CurrentLine.new_lineno, new_idx)
    /\ line_i' = line_i + 1
    /\ UNCHANGED <<inputs, hunks, old_content, new_content, pending_removed, old_idx,
                   hunk_i, ranges, status, is_binary, result, pc>>
    /\ UNCHANGED outside_diff

\* the lines of the hunk are exhausted: flush, next hunk or the tail
HunkEnd ==
    /\ pc = "hunk"
    /\ line_i = Len(CurrentHunk.lines)
    /\ LET f == FlushPendingChanges(old_content, new_content, pending_removed, pending_added)
       IN  /\ old_content' = f.old_content
           /\ new_content' = f.new_content
           /\ pending_removed' = f.pending_removed
           /\ pending_added' = f.pending_added
    /\ hunk_i' = hunk_i + 1
    /\ pc' = IF hunk_i + 1 < Len(hunks) THEN "gap" ELSE "tail"
    /\ UNCHANGED <<inputs, hunks, old_idx, new_idx, line_i, ranges, status, is_binary, result>>
    /\ UNCHANGED outside_diff

\* one unchanged line after the last hunk, to both panes
TailLine ==
    /\ pc = "tail"
    /\ TailCondition(old_idx, new_idx)
    /\ old_content' = Append(old_content, UnchangedOldRow(old_idx))
    /\ new_content' = Append(new_content, UnchangedNewRow(old_idx, new_idx))
    /\ old_idx' = old_idx + 1
    /\ new_idx' = new_idx + 1
    /\ UNCHANGED <<inputs, hunks, hunk_i, line_i, pending_removed, pending_added,
                   ranges, status, is_binary, result, pc>>
    /\ UNCHANGED outside_diff

TailEnd ==
    /\ pc = "tail"
    /\ ~TailCondition(old_idx, new_idx)
    /\ pc' = "tail_old"
    /\ UNCHANGED <<inputs, hunks, old_content, new_content, old_idx, new_idx, hunk_i,
                   line_i, pending_removed, pending_added, ranges, status, is_binary, result>>
    /\ UNCHANGED outside_diff

\* "one file is longer": a left-over old line, to the old pane only
TailOldLine ==
    /\ pc = "tail_old"
    /\ old_idx < Len(OldLines)
    /\ old_content' = Append(old_content, UnchangedOldRow(old_idx))
    /\ old_idx' = old_idx + 1
    /\ UNCHANGED <<inputs, hunks, new_content, new_idx, hunk_i, line_i, pending_removed,
                   pending_added, ranges, status, is_binary, result, pc>>
    /\ UNCHANGED outside_diff

TailOldEnd ==
    /\ pc = "tail_old"
    /\ ~(old_idx < Len(OldLines))
    /\ pc' = "tail_new"
    /\ UNCHANGED <<inputs, hunks, old_content, new_content, old_idx, new_idx, hunk_i,
                   line_i, pending_removed, pending_added, ranges, status, is_binary, result>>
    /\ UNCHANGED outside_diff

\* a left-over new line, to the new pane only
TailNewLine ==
    /\ pc = "tail_new"
    /\ new_idx < Len(NewLines)
    /\ new_content' = Append(new_content,
            LineRow(DiffLine("context", None, Some(new_idx + 1), GetOrEmpty(NewLines, new_idx))))
    /\ new_idx' = new_idx + 1
    /\ UNCHANGED <<inputs, hunks, old_content, old_idx, hunk_i, line_i, pending_removed,
                   pending_added, ranges, status, is_binary, result, pc>>
    /\ UNCHANGED outside_diff

\* the panes are returned
TailNewEnd ==
    /\ pc = "tail_new"
    /\ ~(new_idx < Len(NewLines))
    /\ result' = "ok"
    /\ pc' = "done"
    /\ UNCHANGED <<inputs, hunks, old_content, new_content, old_idx, new_idx, hunk_i,
                   line_i, pending_removed, pending_added, ranges, status, is_binary>>
    /\ UNCHANGED outside_diff

\* parse_diff_for_file found no delta for the path
ParseDiffNotFound ==
    /\ pc = "call"
    /\ entry = "get_file_diff"
    /\ git_hunks = <<>>
    /\ result' = "err"
    /\ pc' = "done"
    /\ UNCHANGED <<inputs, hunks, old_content, new_content, old_idx, new_idx, hunk_i,
                   line_i, pending_removed, pending_added, ranges, status, is_binary>>
    /\ UNCHANGED outside_diff

\* parse_diff_for_file: libgit2 flags the delta as binary
ParseDiffBinary ==
    /\ pc = "call"
    /\ entry = "get_file_diff"
    /\ hunks' = <<>>
    /\ old_content' = <<>>
    /\ new_content' = <<>>
    /\ is_binary' = TRUE
    /\ result' = "ok"
    /\ pc' = "done"
    /\ UNCHANGED <<inputs, old_idx, new_idx, hunk_i, line_i, pending_removed,
                   pending_added, ranges, status>>
    /\ UNCHANGED outside_diff

----------------------------------------------------------------------------
(* get_untracked_file_diff (git/diff.rs).                                  *)

\* content.lines().enumerate().map(..): line i + 1 of the file, as added
AddedLines(content) ==
    LET ls == Lines(content)
    IN  [i \in 1..Len(ls) |-> DiffLine("added", None, Some(i), ls[i])]

\* the hunks of the FileDiff of an untracked file
UntrackedHunks(lines) == <<DiffHunk(0, 0, 1, Len(lines), lines)>>

\* the left pane of an untracked file
UntrackedOldContent(line_count) ==
    IF line_count > 0 THEN <<CollapseRow(line_count, 1, 0)>> ELSE <<>>

GetUntrackedFileDiff ==
    /\ pc = "call"
    /\ entry = "get_untracked_file_diff"
    /\ IF IsSome(new_file_content)
       THEN LET lines == AddedLines(new_file_content[1])
            IN  /\ old_content' = UntrackedOldContent(Len(lines))
                /\ new_content' = LineRows(lines)
                /\ hunks' = UntrackedHunks(lines)
                /\ result' = "ok"
       ELSE \* read_to_string failed
            /\ result' = "err"
            /\ UNCHANGED <<old_content, new_content, hunks>>
    /\ pc' = "done"
    /\ UNCHANGED <<inputs, old_idx, new_idx, hunk_i, line_i, pending_removed,
                   pending_added, ranges, status, is_binary>>
    /\ UNCHANGED outside_diff

----------------------------------------------------------------------------
(* get_ref_diff and synthesize_hunks (git/diff/mod.rs).                    *)

\* RemovedLines numbering the lines from 0
RemovedLinesFromZero(content) ==
    LET ls == Lines(content)
    IN  [i \in 1..Len(ls) |-> DiffLine("removed", Some(i - 1), None, ls[i])]

RemovedLines(content) ==
    LET ls == Lines(content)
    IN  [i \in 1..Len(ls) |-> DiffLine("removed", Some(i), None, ls[i])]

synthesize_hunks(before_content, after_content) ==
    IF ~IsSome(before_content) /\ IsSome(after_content)
    THEN LET lines == AddedLines(after_content[1])
         IN  IF Len(lines) = 0 THEN <<>>
             ELSE <<DiffHunk(0, 0, 1, Len(lines), lines)>>
    ELSE IF IsSome(before_content) /\ ~IsSome(after_content)
    THEN LET lines == RemovedLines(before_content[1])
         IN  IF Len(lines) = 0 THEN <<>>
             ELSE <<DiffHunk(1, Len(lines), 0, 0, lines)>>
    ELSE <<>>

\* is_binary_content looking at the first byte only
is_binary_content_first(bytes) == bytes # <<>> /\ bytes[1] = NUL

\* is_binary_content: the bytes contain a null byte
is_binary_content(bytes) == \E i \in DOMAIN bytes : bytes[i] = NUL

RefStatus(before_content, after_content) ==
    IF ~IsSome(before_content) THEN "added"
    ELSE IF ~IsSome(after_content) THEN "deleted"
    ELSE "modified"

\* RefHunks synthesizing only when both sides are absent
RefHunksBothAbsent(before_content, after_content, parsed) ==
    IF ~IsSome(before_content) /\ ~IsSome(after_content)
    THEN synthesize_hunks(before_content, after_content)
    ELSE parsed

\* the hunks get_ref_diff hands to side_by_side::build; parsed are the
\* hunks parse::parse_diff collects from libgit2 when both sides are present
RefHunks(before_content, after_content, parsed) ==
    IF ~IsSome(before_content) \/ ~IsSome(after_content)
    THEN synthesize_hunks(before_content, after_content)
    ELSE parsed

\* Alignment builder, the walk over the hunks: an unchanged range up to
\* the hunk if a cursor is behind its start, the changed range of the
\* hunk, and after the last hunk an unchanged range for the remainder.
\* Behind that holds for every hunk
BehindAlways(old_pos, new_pos, hunk) == TRUE

\* a cursor is behind the start of the hunk
Behind(old_pos, new_pos, hunk) == old_pos < hunk.old_start \/ new_pos < hunk.new_start

RECURSIVE WalkHunks(_, _, _, _, _, _)
WalkHunks(hs, i, old_pos, new_pos, old_len, new_len) ==
    IF i > Len(hs)
    THEN IF old_pos < old_len \/ new_pos < new_len
         THEN <<Range(old_pos, old_len, new_pos, new_len, FALSE)>>
         ELSE <<>>
    ELSE LET hunk == hs[i]
             old_end == hunk.old_start + hunk.old_lines
             new_end == hunk.new_start + hunk.new_lines
         IN  (IF Behind(old_pos, new_pos, hunk)
              THEN <<Range(old_pos, hunk.old_start, new_pos, hunk.new_start, FALSE)>>
              ELSE <<>>)
             \o <<Range(hunk.old_start, old_end, hunk.new_start, new_end, TRUE)>>
             \o WalkHunks(hs, i + 1, old_end, new_end, old_len, new_len)

\* BuildRanges without the fallback for a side of length 0
BuildRangesNoFallback(old_len, new_len, hs) ==
    IF old_len = 0 /\ new_len = 0 THEN <<>>
    ELSE IF hs = <<>>
    THEN <<Range(0, old_len, 0, new_len, FALSE)>>
    ELSE WalkHunks(hs, 1, 0, 0, old_len, new_len)

\* Alignment builder: the ranges for the two lengths and the hunks
BuildRanges(old_len, new_len, hs) ==
    IF old_len = 0 /\ new_len = 0 THEN <<>>
    ELSE IF hs = <<>>
    THEN <<Range(0, old_len, 0, new_len, old_len = 0 \/ new_len = 0)>>
    ELSE WalkHunks(hs, 1, 0, 0, old_len, new_len)

GetRefDiff ==
    /\ pc = "call"
    /\ entry = "get_ref_diff"
    /\ IF ~IsSome(old_file_content) /\ ~IsSome(new_file_content)
       THEN /\ result' = "err"
            /\ UNCHANGED <<hunks, ranges, status, is_binary>>
       ELSE /\ result' = "ok"
            /\ status' = RefStatus(old_file_content, new_file_content)
            /\ IF \/ IsSome(old_file_content) /\ is_binary_content(old_file_content[1])
                  \/ IsSome(new_file_content) /\ is_binary_content(new_file_content[1])
               THEN /\ is_binary' = TRUE
                    /\ hunks' = <<>>
                    /\ ranges' = <<>>
               ELSE /\ is_binary' = FALSE
                    /\ hunks' = RefHunks(old_file_content, new_file_content, git_hunks)
                    /\ ranges' = BuildRanges(Len(OldLines), Len(NewLines), hunks')
    /\ pc' = "done"
    /\ UNCHANGED <<inputs, old_content, new_content, old_idx, new_idx, hunk_i, line_i,
                   pending_removed, pending_added>>
    /\ UNCHANGED outside_diff

\* side_by_side::build called on its own: the ranges for two contents and
\* a hunk list
BuildAlignment ==
    /\ pc = "call"
    /\ entry = "side_by_side::build"
    /\ hunks' = git_hunks
    /\ ranges' = BuildRanges(Len(OldLines), Len(NewLines), git_hunks)
    /\ result' = "ok"
    /\ pc' = "done"
    /\ UNCHANGED <<inputs, old_content, new_content, old_idx, new_idx, hunk_i, line_i,
                   pending_removed, pending_added, status, is_binary>>
    /\ UNCHANGED outside_diff

----------------------------------------------------------------------------
(* The action executor: run_action, its task, stop_action.                 *)

\* most calls of run_action
MaxRuns == 1

\* the execution ids the callers pass
ExecutionIds == {"e1", "e2"}

\* status.code() of a child that ended by itself
ExitCodes == {Some(0), Some(1)}

\* Result<Option<i32>, String> of run_action_inner
Ok(code) == [ok |-> TRUE, code |-> code]

Err == [ok |-> FALSE, code |-> None]

\* the task of one run_action call: where it is, the receiver of its stop
\* channel, its child process, what run_action_inner returned and by which
\* branch
Task(id) ==
    [execution_id |-> id, pc |-> "spawn", stop_rx |-> "open", child |-> "none",
     result |-> None, by |-> "none"]

\* a handle leaves the map and is dropped or stopped: the receiver of the
\* run it belongs to sees the sender go
Resolved(rs, handle, how) ==
    IF IsSome(handle) /\ rs[handle[1]].stop_rx = "open"
    THEN [rs EXCEPT ![handle[1]].stop_rx = how]
    ELSE rs

\* HashMap::remove keeping the entry
RemoveNothing(actions, id) == actions

\* HashMap::remove
Remove(actions, id) == [actions EXCEPT ![id] = None]

\* ActionCompleteEvent of a finished run_action_inner
ActionCompleteEvent(id, res) ==
    [execution_id |-> id,
     exit_code |-> IF res.ok THEN res.code ELSE None,
     success |-> res.ok /\ res.code = Some(0)]

\* run_action: a channel, the handle stored under the id (a handle already
\* there is replaced and dropped), the task spawned, Ok(id) returned
RunAction(id) ==
    /\ Len(runs) < MaxRuns
    /\ runs' = Append(Resolved(runs, RUNNING_ACTIONS[id], "closed"), Task(id))
    /\ RUNNING_ACTIONS' = [RUNNING_ACTIONS EXCEPT ![id] = Some(Len(runs) + 1)]
    /\ UNCHANGED <<events, last_stop, outside_executor>>

\* run_action_inner: the shell is spawned, or the spawn fails
SpawnChild(r) ==
    /\ r \in DOMAIN runs
    /\ runs[r].pc = "spawn"
    /\ \/ runs' = [runs EXCEPT ![r].pc = "select", ![r].child = "running"]
       \/ runs' = [runs EXCEPT ![r].pc = "cleanup", ![r].result = Some(Err),
                               ![r].by = "spawn"]
    /\ UNCHANGED <<RUNNING_ACTIONS, events, last_stop, outside_executor>>

\* the child process ends by itself while the task waits for it
ChildExit(r) ==
    /\ r \in DOMAIN runs
    /\ runs[r].pc = "select"
    /\ runs[r].child = "running"
    /\ runs' = [runs EXCEPT ![r].child = "exited"]
    /\ UNCHANGED <<RUNNING_ACTIONS, events, last_stop, outside_executor>>

\* select!: child.wait() is ready
SelectWait(r) ==
    /\ r \in DOMAIN runs
    /\ runs[r].pc = "select"
    /\ runs[r].child = "exited"
    /\ \E res \in {Ok(code) : code \in ExitCodes} \cup {Err} :
        runs' = [runs EXCEPT ![r].pc = "drain", ![r].result = Some(res), ![r].by = "wait"]
    /\ UNCHANGED <<RUNNING_ACTIONS, events, last_stop, outside_executor>>

\* select!: the stop receiver is ready (a stop was sent, or the sender was
\* dropped); the child is killed
SelectStop(r) ==
    /\ r \in DOMAIN runs
    /\ runs[r].pc = "select"
    /\ runs[r].stop_rx # "open"
    /\ runs' = [runs EXCEPT ![r].pc = "drain", ![r].result = Some(Ok(None)), ![r].by = "stop",
                            ![r].child = "exited"]
    /\ UNCHANGED <<RUNNING_ACTIONS, events, last_stop, outside_executor>>

\* stdout_task.await and stderr_task.await return: the streaming tasks have
\* read the end of stdout and stderr, which every process that holds the
\* pipes has closed
Drain(r) ==
    /\ r \in DOMAIN runs
    /\ runs[r].pc = "drain"
    /\ runs' = [runs EXCEPT ![r].pc = "cleanup"]
    /\ UNCHANGED <<RUNNING_ACTIONS, events, last_stop, outside_executor>>

\* the task removes what is stored under its id
CleanUp(r) ==
    /\ r \in DOMAIN runs
    /\ runs[r].pc = "cleanup"
    /\ RUNNING_ACTIONS' = Remove(RUNNING_ACTIONS, runs[r].execution_id)
    /\ runs' = [Resolved(runs, RUNNING_ACTIONS[runs[r].execution_id], "closed")
                    EXCEPT ![r].pc = "emit"]
    /\ UNCHANGED <<events, last_stop, outside_executor>>

\* the task emits action-complete
EmitComplete(r) ==
    /\ r \in DOMAIN runs
    /\ runs[r].pc = "emit"
    /\ events' = [events EXCEPT ![r] =
                    Append(@, ActionCompleteEvent(runs[r].execution_id, runs[r].result[1]))]
    /\ runs' = [runs EXCEPT ![r].pc = "done"]
    /\ UNCHANGED <<RUNNING_ACTIONS, last_stop, outside_executor>>

\* stop_action
StopAction(id) ==
    /\ RUNNING_ACTIONS' = Remove(RUNNING_ACTIONS, id)
    /\ runs' = Resolved(runs, RUNNING_ACTIONS[id], "sent")
    /\ last_stop' = [execution_id |-> id,
                     returned |-> IF IsSome(RUNNING_ACTIONS[id]) THEN "Ok" ELSE "Err"]
    /\ UNCHANGED <<events, outside_executor>>

\* one step of the task of run r that the runtime alone decides
TaskStep(r) ==
    SpawnChild(r) \/ SelectWait(r) \/ SelectStop(r) \/ CleanUp(r) \/ EmitComplete(r)

----------------------------------------------------------------------------
(* The plugin system: manager, event dispatcher, command and menu registry. *)

\* most subscribe calls
MaxSubscriptions == 2

\* manifest.plugin.name of the plugins, as characters
PluginNames == {<<"a">>, <<"a", ":", "b">>}

\* names of commands, as characters
CommandNames == {<<"c">>, <<"b", ":", "c">>}

\* ids of menu items, as characters
MenuIds == {<<"c">>}

\* format!("{}:{}", plugin_name, command_name)
FullName(plugin_name, name) == plugin_name \o <<":">> \o name

FullNames == {FullName(p, c) : p \in PluginNames, c \in CommandNames}

\* a command handler with the context registered with it; the label of a
\* menu item
Handlers == {[handler |-> "h1", context |-> "x1"], [handler |-> "h2", context |-> "x2"]}

Labels == {"l1", "l2"}

\* the events emitted, and the names plugins subscribe under
PluginEvents == {"Startup", "Shutdown", "Commit"}

EventNames == {"startup", "shutdown", "Shutdown"}

\* event_type_name
event_type_name(event) ==
    CASE event = "Startup" -> "startup"
      [] event = "Shutdown" -> "shutdown"
      [] event = "Commit" -> "commit"

\* what init returns
InitCodes == {0, 1}

\* the orders in which a HashMap iterates over the keys it holds
Orders(keys) == {o \in [1..Cardinality(keys) -> keys] : \A i, j \in DOMAIN o : o[i] = o[j] => i = j}

Call(fn, plugin_name, arg) == [fn |-> fn, plugin_name |-> plugin_name, arg |-> arg]

Returned(op, arg, returned, calls) == [op |-> op, arg |-> arg, returned |-> returned, calls |-> calls]

\* EventDispatcher::subscribe pushing to the front
SubscribeFront(subs, plugin_name, event_name) ==
    [subs EXCEPT ![event_name] = <<[plugin_name |-> plugin_name]>> \o @]

\* EventDispatcher::subscribe: the subscriptions afterwards
Subscribe(subs, plugin_name, event_name) ==
    [subs EXCEPT ![event_name] = Append(@, [plugin_name |-> plugin_name])]

\* EventDispatcher::emit: the callbacks called, in order
Emit(subs, event) ==
    IF event_type_name(event) \notin DOMAIN subs
    THEN <<>>
    ELSE [i \in 1..Len(subs[event_type_name(event)]) |->
            Call("callback", subs[event_type_name(event)][i].plugin_name, event)]

\* shutdown_all calling the shutdown functions first
ShutdownAllBackwards(subs, order) ==
    [i \in 1..Len(order) |-> Call("shutdown", order[i], "")] \o Emit(subs, "Shutdown")

\* PluginManager::shutdown_all: the plugin functions called, in order
ShutdownAll(subs, order) ==
    Emit(subs, "Shutdown") \o [i \in 1..Len(order) |-> Call("shutdown", order[i], "")]

\* a subscribe call
SubscribeCall(plugin_name, event_name) ==
    /\ Len(subscribed) < MaxSubscriptions
    /\ subscriptions' = Subscribe(subscriptions, plugin_name, event_name)
    /\ subscribed' = Append(subscribed, [plugin_name |-> plugin_name, event_name |-> event_name])
    /\ last_call' = Returned("subscribe", event_name, "Ok", <<>>)
    /\ UNCHANGED <<plugins, commands, items, outside_plugin>>

\* emit_event
EmitEvent(event) ==
    /\ last_call' = Returned("emit", event, "", Emit(subscriptions, event))
    /\ UNCHANGED <<plugins, subscriptions, subscribed, commands, items, outside_plugin>>

\* load_plugin: loadable says whether the manifest is compatible, the binary
\* is there and its entry point gives a vtable of the right version
LoadPlugin(plugin_name, loadable) ==
    /\ IF IsSome(plugins[plugin_name]) \/ ~loadable
       THEN /\ last_call' = Returned("load_plugin", plugin_name, "Err", <<>>)
            /\ UNCHANGED plugins
       ELSE /\ plugins' = [plugins EXCEPT ![plugin_name] = Some([state |-> "Loaded", init |-> None])]
            /\ last_call' = Returned("load_plugin", plugin_name, "Ok", <<>>)
    /\ UNCHANGED <<subscriptions, subscribed, commands, items, outside_plugin>>

\* initialize_plugin: prepared says whether the data directory and the
\* config string could be made; code is what init returns
InitializePlugin(plugin_name, prepared, code) ==
    /\ IF ~prepared \/ ~IsSome(plugins[plugin_name])
       THEN /\ last_call' = Returned("initialize_plugin", plugin_name, "Err", <<>>)
            /\ UNCHANGED plugins
       ELSE /\ plugins' = [plugins EXCEPT ![plugin_name] =
                            Some([state |-> IF code # 0 THEN "Failed" ELSE "Loaded",
                                  init |-> Some(code)])]
            /\ last_call' = Returned("initialize_plugin", plugin_name,
                                     IF code # 0 THEN "Err" ELSE "Ok",
                                     <<Call("init", plugin_name, "")>>)
    /\ UNCHANGED <<subscriptions, subscribed, commands, items, outside_plugin>>

\* shutdown_all
ShutdownAllCall ==
    /\ \E order \in Orders({p \in PluginNames : IsSome(plugins[p])}) :
        last_call' = Returned("shutdown_all", "", "", ShutdownAll(subscriptions, order))
    /\ UNCHANGED <<plugins, subscriptions, subscribed, commands, items, outside_plugin>>

\* register_command keeping the later registration
RegisterOver(registry, full_name, value) == [registry EXCEPT ![full_name] = Some(value)]

\* register_command and register_item: the registry afterwards
Register(registry, full_name, value) ==
    IF IsSome(registry[full_name]) THEN registry ELSE [registry EXCEPT ![full_name] = Some(value)]

\* register_command
RegisterCommand(plugin_name, command_name, h) ==
    /\ commands' = Register(commands, FullName(plugin_name, command_name),
                            [plugin_name |-> plugin_name, handler |-> h.handler,
                             context |-> h.context])
    /\ last_call' = Returned("register_command", <<plugin_name, command_name>>,
                             IF IsSome(commands[FullName(plugin_name, command_name)])
                             THEN "Err" ELSE "Ok", <<>>)
    /\ UNCHANGED <<plugins, subscriptions, subscribed, items, outside_plugin>>

\* register_item
RegisterItem(plugin_name, id, label) ==
    /\ items' = Register(items, FullName(plugin_name, id),
                         [plugin_name |-> plugin_name, id |-> id, label |-> label])
    /\ last_call' = Returned("register_item", <<plugin_name, id>>,
                             IF IsSome(items[FullName(plugin_name, id)])
                             THEN "Err" ELSE "Ok", <<>>)
    /\ UNCHANGED <<plugins, subscriptions, subscribed, commands, outside_plugin>>

\* invoke_command: payload_ok says whether the payload is free of null
\* bytes; code is what the handler returns
InvokeCommand(plugin_name, command_name, payload_ok, code) ==
    /\ LET cmd == commands[FullName(plugin_name, command_name)] IN
        last_call' =
            IF ~IsSome(cmd) \/ ~payload_ok
            THEN Returned("invoke_command", <<plugin_name, command_name>>, "Err", <<>>)
            ELSE Returned("invoke_command", <<plugin_name, command_name>>,
                          IF code # 0 THEN "Err" ELSE "Ok",
                          <<Call(cmd[1].handler, cmd[1].plugin_name, cmd[1].context)>>)
    /\ UNCHANGED <<plugins, subscriptions, subscribed, commands, items, outside_plugin>>

PluginIdle ==
    /\ plugins = [p \in PluginNames |-> None]
    /\ subscriptions = [e \in EventNames |-> <<>>]
    /\ subscribed = <<>>
    /\ commands = [f \in FullNames |-> None]
    /\ items = [f \in FullNames |-> None]
    /\ last_call = Returned("", "", "", <<>>)

ExecutorIdle ==
    /\ RUNNING_ACTIONS = [id \in ExecutionIds |-> None]
    /\ runs = <<>>
    /\ events = [r \in 1..MaxRuns |-> <<>>]
    /\ last_stop = [execution_id |-> "", returned |-> ""]

----------------------------------------------------------------------------
(* The review store (SqliteStore).  A call is a sequence of sections, each *)
(* run with the connection locked; the timestamps of a review, and with    *)
(* them touch, are left out.                                               *)

\* the diffs, as their storage ids
DiffIds == {"d1", "d2"}

FilePaths == {"f1", "f2"}

\* the ids of comments and of edits
CommentIds == {"c1", "c2"}

EditIds == {"e1"}

\* the threads calling the store
StoreThreads == {1, 2}

Row(row_id, review_id) == [id |-> row_id, review_id |-> review_id]

\* the thread's record of a call of op on diff with argument arg
StoreCall(op, diff, arg, at, returned) ==
    [op |-> op, id |-> diff, arg |-> arg, pc |-> at, returned |-> returned]

\* load_reviewed_files, load_comments, load_edits
Children(files, cs, es, diff) ==
    [reviewed |-> {f \in FilePaths : <<diff, f>> \in files},
     comments |-> {r.id : r \in {x \in cs : x.review_id = diff}},
     edits |-> {r.id : r \in {x \in es : x.review_id = diff}}]

\* get on the tables given
GetFrom(rs, files, cs, es, diff) ==
    IF diff \in rs THEN Some(Children(files, cs, es, diff)) ELSE None

\* DELETE FROM reviews without the cascade to the child tables
WithoutKept(rows, diff) == rows

\* ON DELETE CASCADE: the rows of a child table without those of the review
Without(rows, diff) == {r \in rows : r.review_id # diff}

\* unmark_reviewed deleting every row of the review
UnmarkedAll(files, diff, file_path) == {r \in files : r[1] # diff}

\* unmark_reviewed: the rows of reviewed_files afterwards
Unmarked(files, diff, file_path) == files \ {<<diff, file_path>>}

\* ensure_review inserting nothing
EnsuredNothing(rs, diff) == rs

\* ensure_review: the ids of reviews afterwards
Ensured(rs, diff) == rs \cup {diff}

\* get
Get(t, diff) ==
    /\ store_calls[t].pc = "idle"
    /\ store_calls' = [store_calls EXCEPT ![t] =
            StoreCall("get", diff, "", "idle",
                      IF diff \in reviews THEN "Some" ELSE "None")]
    /\ UNCHANGED <<reviews, reviewed_files, comments, edits, marks, outside_review>>

\* get_or_create up to the return of its get
GetOrCreate(t, diff) ==
    /\ store_calls[t].pc = "idle"
    /\ store_calls' = [store_calls EXCEPT ![t] =
            IF diff \in reviews
            THEN StoreCall("get_or_create", diff, "", "idle", "Ok")
            ELSE StoreCall("get_or_create", diff, "", "save", "")]
    /\ UNCHANGED <<reviews, reviewed_files, comments, edits, marks, outside_review>>

\* save of the empty review get_or_create has made
Save(t) ==
    /\ store_calls[t].pc = "save"
    /\ reviews' = reviews \cup {store_calls[t].id}
    /\ reviewed_files' = {r \in reviewed_files : r[1] # store_calls[t].id}
    /\ comments' = Without(comments, store_calls[t].id)
    /\ edits' = Without(edits, store_calls[t].id)
    /\ store_calls' = [store_calls EXCEPT ![t].pc = "idle", ![t].returned = "Ok"]
    /\ UNCHANGED <<marks, outside_review>>

\* delete
Delete(t, diff) ==
    /\ store_calls[t].pc = "idle"
    /\ reviews' = reviews \ {diff}
    /\ reviewed_files' = {r \in reviewed_files : r[1] # diff}
    /\ comments' = Without(comments, diff)
    /\ edits' = Without(edits, diff)
    /\ marks' = [marks EXCEPT ![diff] =
                    [f \in FilePaths |-> IF marks[diff][f] = "" THEN "" ELSE "deleted"]]
    /\ store_calls' = [store_calls EXCEPT ![t] = StoreCall("delete", diff, "", "idle", "Ok")]
    /\ UNCHANGED outside_review

\* ensure_review, called first by add_comment, mark_reviewed and add_edit
EnsureReview(t, op, diff, arg) ==
    /\ store_calls[t].pc = "idle"
    /\ reviews' = Ensured(reviews, diff)
    /\ store_calls' = [store_calls EXCEPT ![t] = StoreCall(op, diff, arg, "insert", "")]
    /\ UNCHANGED <<reviewed_files, comments, edits, marks, outside_review>>

\* the INSERT of add_comment, mark_reviewed and add_edit: it fails when the
\* review is not there (foreign key) or the id of the comment or the edit
\* is taken (primary key)
Insert(t) ==
    /\ store_calls[t].pc = "insert"
    /\ LET call == store_calls[t]
           refused ==
                \/ call.id \notin reviews
                \/ call.op = "add_comment" /\ \E r \in comments : r.id = call.arg
                \/ call.op = "add_edit" /\ \E r \in edits : r.id = call.arg
       IN  /\ store_calls' = [store_calls EXCEPT ![t].pc = "idle",
                                ![t].returned = IF refused THEN "Err" ELSE "Ok"]
           /\ reviewed_files' =
                IF ~refused /\ call.op = "mark_reviewed"
                THEN reviewed_files \cup {<<call.id, call.arg>>} ELSE reviewed_files
           /\ comments' =
                IF ~refused /\ call.op = "add_comment"
                THEN comments \cup {Row(call.arg, call.id)} ELSE comments
           /\ edits' =
                IF ~refused /\ call.op = "add_edit"
                THEN edits \cup {Row(call.arg, call.id)} ELSE edits
           /\ marks' =
                IF ~refused /\ call.op = "mark_reviewed"
                THEN [marks EXCEPT ![call.id][call.arg] = "mark_reviewed"] ELSE marks
    /\ UNCHANGED <<reviews, outside_review>>

\* unmark_reviewed
UnmarkReviewed(t, diff, file_path) ==
    /\ store_calls[t].pc = "idle"
    /\ reviewed_files' = Unmarked(reviewed_files, diff, file_path)
    /\ marks' = [marks EXCEPT ![diff][file_path] = "unmark_reviewed"]
    /\ store_calls' = [store_calls EXCEPT ![t] =
            StoreCall("unmark_reviewed", diff, file_path, "idle", "Ok")]
    /\ UNCHANGED <<reviews, comments, edits, outside_review>>

\* delete_comment
DeleteComment(t, diff, comment_id) ==
    /\ store_calls[t].pc = "idle"
    /\ comments' = comments \ {Row(comment_id, diff)}
    /\ store_calls' = [store_calls EXCEPT ![t] =
            StoreCall("delete_comment", diff, comment_id, "idle", "Ok")]
    /\ UNCHANGED <<reviews, reviewed_files, edits, marks, outside_review>>

ReviewIdle ==
    /\ reviews = {}
    /\ reviewed_files = {}
    /\ comments = {}
    /\ edits = {}
    /\ store_calls = [t \in StoreThreads |-> StoreCall("", "", "", "idle", "")]
    /\ marks = [diff \in DiffIds |-> [f \in FilePaths |-> ""]]

----------------------------------------------------------------------------
(* The project store (ProjectStore) and the chat store (ChatStore).  Every *)
(* call runs with the connection locked from start to end.  project_db     *)
(* keeps with the tables what the last delete_project took with it.        *)

\* most chat messages added
MaxMessages == 2

ProjectIds == {"p1", "p2"}

ArtifactIds == {"a1", "a2"}

SessionIds == {"s1"}

ChatSessionIds == {"s1", "s2"}

ToolCallIds == {"t1", "t2"}

\* the ids of the artifacts in table artifacts
Artifacts(db) == {a \in ArtifactIds : IsSome(db.artifacts[a])}

\* the artifacts of the project
ArtifactsOf(db, project) == {a \in Artifacts(db) : db.artifacts[a][1].project_id = project}

\* create_project
CreateProject(project) ==
    /\ project \notin project_db.projects
    /\ project_db' = [project_db EXCEPT !.projects = @ \cup {project}]
    /\ UNCHANGED <<chat_db, outside_stores>>

\* create_artifact: parent is None or Some artifact
CreateArtifact(artifact, project, parent) ==
    /\ ~IsSome(project_db.artifacts[artifact])
    /\ project \in project_db.projects
    /\ IsSome(parent) => parent[1] \in Artifacts(project_db)
    /\ project_db' = [project_db EXCEPT !.artifacts[artifact] =
                        Some([project_id |-> project, parent_artifact_id |-> parent])]
    /\ UNCHANGED <<chat_db, outside_stores>>

\* add_context
AddContext(artifact, context) ==
    /\ {artifact, context} \subseteq Artifacts(project_db)
    /\ project_db' = [project_db EXCEPT !.artifact_context = @ \cup {<<artifact, context>>}]
    /\ UNCHANGED <<chat_db, outside_stores>>

\* ProjectStore::create_session
CreateSession(session, artifact) ==
    /\ ~IsSome(project_db.sessions[session])
    /\ artifact \in Artifacts(project_db)
    /\ project_db' = [project_db EXCEPT !.sessions[session] = Some(artifact)]
    /\ UNCHANGED <<chat_db, outside_stores>>

\* DELETE FROM projects leaving the artifacts of the project
DeletedProjectOnly(db, project) ==
    [db EXCEPT !.projects = @ \ {project},
               !.cascade = [project |-> project, artifacts |-> {}, set_null |-> {}]]

\* DELETE FROM projects with the ON DELETE actions of the schema
DeletedProject(db, project) ==
    LET gone == ArtifactsOf(db, project) IN
    [projects |-> db.projects \ {project},
     artifacts |->
        [a \in ArtifactIds |->
            IF a \in gone THEN None
            ELSE IF IsSome(db.artifacts[a])
                    /\ IsSome(db.artifacts[a][1].parent_artifact_id)
                    /\ db.artifacts[a][1].parent_artifact_id[1] \in gone
                 THEN Some([db.artifacts[a][1] EXCEPT !.parent_artifact_id = None])
                 ELSE db.artifacts[a]],
     artifact_context |->
        {l \in db.artifact_context : l[1] \notin gone /\ l[2] \notin gone},
     sessions |->
        [x \in SessionIds |->
            IF IsSome(db.sessions[x]) /\ db.sessions[x][1] \in gone
            THEN None ELSE db.sessions[x]],
     cascade |->
        [project |-> project, artifacts |-> gone,
         set_null |-> {a \in Artifacts(db) \ gone :
                        /\ IsSome(db.artifacts[a][1].parent_artifact_id)
                        /\ db.artifacts[a][1].parent_artifact_id[1] \in gone}]]

\* delete_project
DeleteProject(project) ==
    /\ project_db' = DeletedProject(project_db, project)
    /\ UNCHANGED <<chat_db, outside_stores>>

\* ChatStore::create_session
CreateChatSession(session) ==
    /\ session \notin chat_db.chat_sessions
    /\ chat_db' = [chat_db EXCEPT !.chat_sessions = @ \cup {session}]
    /\ UNCHANGED <<project_db, outside_stores>>

\* add_message: the id is the next of the AUTOINCREMENT sequence
AddMessage(session) ==
    /\ chat_db.sequence < MaxMessages
    /\ session \in chat_db.chat_sessions
    /\ chat_db' = [chat_db EXCEPT
            !.sequence = @ + 1,
            !.chat_messages = @ \cup {[id |-> chat_db.sequence + 1, session_id |-> session]}]
    /\ UNCHANGED <<project_db, outside_stores>>

\* add_tool_call
AddToolCall(tool_call, message) ==
    /\ \A r \in chat_db.chat_tool_calls : r.id # tool_call
    /\ \E m \in chat_db.chat_messages : m.id = message
    /\ chat_db' = [chat_db EXCEPT
            !.chat_tool_calls = @ \cup {[id |-> tool_call, message_id |-> message]}]
    /\ UNCHANGED <<project_db, outside_stores>>

\* DELETE FROM chat_sessions leaving the tool calls of its messages
DeletedSessionMessages(db, session) ==
    [db EXCEPT !.chat_sessions = @ \ {session},
               !.chat_messages = {m \in @ : m.session_id # session}]

\* DELETE FROM chat_sessions with the ON DELETE CASCADE of the schema
DeletedSession(db, session) ==
    LET gone == {m.id : m \in {x \in db.chat_messages : x.session_id = session}} IN
    [db EXCEPT !.chat_sessions = @ \ {session},
               !.chat_messages = {m \in @ : m.session_id # session},
               !.chat_tool_calls = {r \in @ : r.message_id \notin gone}]

\* ChatStore::delete_session
DeleteSession(session) ==
    /\ chat_db' = DeletedSession(chat_db, session)
    /\ UNCHANGED <<project_db, outside_stores>>

StoresIdle ==
    /\ ReviewIdle
    /\ project_db = [projects |-> {}, artifacts |-> [a \in ArtifactIds |-> None],
                     artifact_context |-> {}, sessions |-> [x \in SessionIds |-> None],
                     cascade |-> [project |-> "", artifacts |-> {}, set_null |-> {}]]
    /\ chat_db = [chat_sessions |-> {}, chat_messages |-> {}, chat_tool_calls |-> {},
                  sequence |-> 0]

----------------------------------------------------------------------------
(* The calls of the model.                                                 *)

Idle ==
    /\ hunks = <<>>
    /\ old_content = <<>>
    /\ new_content = <<>>
    /\ old_idx = 0
    /\ new_idx = 0
    /\ hunk_i = 0
    /\ line_i = 0
    /\ pending_removed = <<>>
    /\ pending_added = <<>>
    /\ ranges = <<>>
    /\ status = ""
    /\ is_binary = FALSE
    /\ result = "none"
    /\ pc = "call"

\* Two sides that differ by an edit script.  get_file_diff and get_ref_diff
\* ask libgit2 for hunks without context lines and get 1-based starts; a
\* direct call of the row builder or of the alignment builder takes any
\* hunk list that describes the difference, with context lines or without,
\* starts 1-based or 0-based.
InitScript ==
    \E ops \in EditScripts, final_newline \in BOOLEAN :
        \E ctx \in ContextChoices(ops), base \in {0, 1} :
            /\ entry \in {"get_file_diff", "get_ref_diff", "build_full_file_side_by_side",
                          "side_by_side::build"}
            /\ entry \in {"get_file_diff", "get_ref_diff"} => ctx = {} /\ base = 1
            /\ old_file_content \in SideContents(SideLines(ops, 1, OldSide), final_newline)
            /\ new_file_content \in SideContents(SideLines(ops, 1, NewSide), final_newline)
            /\ git_hunks = ScriptHunks(ops, ctx \cup Changed(ops), 1, base)

\* A file of any text that exists on one side only, or on no side.
InitOneSide ==
    \E s \in Strings(MaxStr) :
        \/ /\ entry \in {"get_ref_diff", "get_untracked_file_diff"}
           /\ old_file_content = None
           /\ new_file_content \in {None, Some(s)}
           /\ git_hunks = <<>>
        \/ /\ entry = "get_ref_diff"
           /\ old_file_content = Some(s)
           /\ new_file_content = None
           /\ git_hunks = <<>>
        \/ /\ entry \in {"get_file_diff", "build_full_file_side_by_side"}
           /\ ~is_binary_content(s)
           /\ old_file_content = None
           /\ new_file_content = Some(s)
           /\ git_hunks = IF Lines(s) = <<>> THEN <<>>
                          ELSE <<DiffHunk(0, 0, 1, Len(Lines(s)), AddedLines(s))>>

\* A file on both sides of get_ref_diff with a null byte in one of them: the
\* line diff has no text hunks for it.
InitBinary ==
    \E s, t \in Strings(MaxStr - 1) :
        /\ is_binary_content(s) \/ is_binary_content(t)
        /\ entry = "get_ref_diff"
        /\ old_file_content = Some(s)
        /\ new_file_content = Some(t)
        /\ git_hunks = <<>>

\* The alignment builder called with no hunks, for two texts of any length
\* (its fallback when no hunk data is supplied).
InitNoHunks ==
    \E s, t \in {u \in Strings(MaxStr) : ~is_binary_content(u)} :
        /\ entry = "side_by_side::build"
        /\ old_file_content \in {None, Some(s)}
        /\ new_file_content \in {None, Some(t)}
        /\ git_hunks = <<>>

Init == Idle /\ (InitScript \/ InitOneSide \/ InitBinary \/ InitNoHunks) /\ ExecutorIdle /\ PluginIdle /\ StoresIdle

Next ==
    \/ BuildBegin
    \/ GapLine
    \/ GapEnd
    \/ HunkContextLine
    \/ HunkRemovedLine
    \/ HunkAddedLine
    \/ HunkEnd
    \/ TailLine
    \/ TailEnd
    \/ TailOldLine
    \/ TailOldEnd
    \/ TailNewLine
    \/ TailNewEnd
    \/ ParseDiffNotFound
    \/ ParseDiffBinary
    \/ GetUntrackedFileDiff
    \/ GetRefDiff
    \/ BuildAlignment

Spec == Init /\ [][Next]_vars

\* no diff function is running
DiffIdle ==
    /\ Idle
    /\ entry = "none"
    /\ old_file_content = None
    /\ new_file_content = None
    /\ git_hunks = <<>>

InitExecutor == DiffIdle /\ ExecutorIdle /\ PluginIdle /\ StoresIdle

NextExecutor ==
    \/ \E id \in ExecutionIds : RunAction(id)
    \/ \E id \in ExecutionIds : StopAction(id)
    \/ \E r \in 1..MaxRuns : SpawnChild(r)
    \/ \E r \in 1..MaxRuns : ChildExit(r)
    \/ \E r \in 1..MaxRuns : SelectWait(r)
    \/ \E r \in 1..MaxRuns : SelectStop(r)
    \/ \E r \in 1..MaxRuns : Drain(r)
    \/ \E r \in 1..MaxRuns : CleanUp(r)
    \/ \E r \in 1..MaxRuns : EmitComplete(r)

SpecExecutor == InitExecutor /\ [][NextExecutor]_vars

InitPlugin == DiffIdle /\ ExecutorIdle /\ PluginIdle /\ StoresIdle

\* the plugin manager and its event dispatcher
NextPlugin ==
    \/ \E p \in PluginNames, e \in EventNames : SubscribeCall(p, e)
    \/ \E event \in PluginEvents : EmitEvent(event)
    \/ \E p \in PluginNames, loadable \in BOOLEAN : LoadPlugin(p, loadable)
    \/ \E p \in PluginNames, prepared \in BOOLEAN, code \in InitCodes :
            InitializePlugin(p, prepared, code)
    \/ ShutdownAllCall

SpecPlugin == InitPlugin /\ [][NextPlugin]_vars

\* the command registry and the menu registry
NextRegistry ==
    \/ \E p \in PluginNames, c \in CommandNames, h \in Handlers : RegisterCommand(p, c, h)
    \/ \E p \in PluginNames, id \in MenuIds, l \in Labels : RegisterItem(p, id, l)
    \/ \E p \in PluginNames, c \in CommandNames, payload_ok \in BOOLEAN, code \in InitCodes :
            InvokeCommand(p, c, payload_ok, code)

SpecRegistry == InitPlugin /\ [][NextRegistry]_vars

InitStore == DiffIdle /\ ExecutorIdle /\ PluginIdle /\ StoresIdle

\* the review store called from one thread, a call at a time
NextReview ==
    \/ \E diff \in DiffIds : Get(1, diff)
    \/ \E diff \in DiffIds : GetOrCreate(1, diff)
    \/ Save(1)
    \/ \E diff \in DiffIds : Delete(1, diff)
    \/ \E diff \in DiffIds, c \in CommentIds : EnsureReview(1, "add_comment", diff, c)
    \/ \E diff \in DiffIds, f \in FilePaths : EnsureReview(1, "mark_reviewed", diff, f)
    \/ \E diff \in DiffIds, e \in EditIds : EnsureReview(1, "add_edit", diff, e)
    \/ Insert(1)
    \/ \E diff \in DiffIds, f \in FilePaths : UnmarkReviewed(1, diff, f)
    \/ \E diff \in DiffIds, c \in CommentIds : DeleteComment(1, diff, c)

SpecReview == InitStore /\ [][NextReview]_vars

\* the review store called from two threads: thread 1 calls get_or_create
\* and get, thread 2 calls add_comment, mark_reviewed, add_edit and get.
\* Every step is one section under the connection's lock, so the calls of
\* the two threads interleave between their sections.
NextReviewRace ==
    \/ \E diff \in DiffIds : GetOrCreate(1, diff)
    \/ Save(1)
    \/ \E t \in StoreThreads, diff \in DiffIds : Get(t, diff)
    \/ \E diff \in DiffIds, c \in CommentIds : EnsureReview(2, "add_comment", diff, c)
    \/ \E diff \in DiffIds, f \in FilePaths : EnsureReview(2, "mark_reviewed", diff, f)
    \/ \E diff \in DiffIds, e \in EditIds : EnsureReview(2, "add_edit", diff, e)
    \/ Insert(2)

SpecReviewRace == InitStore /\ [][NextReviewRace]_vars

\* the project store and the chat store: two databases with nothing in
\* common, so a behaviour calls one of them only
NextStores ==
    \/ /\ chat_db.chat_sessions = {} /\ chat_db.sequence = 0
       /\ \/ \E p \in ProjectIds : CreateProject(p)
          \/ \E a \in ArtifactIds, p \in ProjectIds,
                parent \in {None} \cup {Some(x) : x \in ArtifactIds} :
                    CreateArtifact(a, p, parent)
          \/ \E a \in ArtifactIds, x \in ArtifactIds : AddContext(a, x)
          \/ \E x \in SessionIds, a \in ArtifactIds : CreateSession(x, a)
          \/ \E p \in ProjectIds : DeleteProject(p)
    \/ /\ project_db.projects = {} /\ project_db.cascade.project = ""
       /\ \/ \E x \in ChatSessionIds : CreateChatSession(x)
          \/ \E x \in ChatSessionIds : AddMessage(x)
          \/ \E tc \in ToolCallIds, m \in 1..MaxMessages : AddToolCall(tc, m)
          \/ \E x \in ChatSessionIds : DeleteSession(x)

SpecStores == InitStore /\ [][NextStores]_vars

\* the runtime runs every task that can take a step, and every child process
\* ends; nothing makes the pipes of a child reach their end
SpecExecutorFair ==
    /\ SpecExecutor
    /\ \A r \in 1..MaxRuns : WF_vars(TaskStep(r)) /\ WF_vars(ChildExit(r))

TypeOK ==
    /\ pc \in {"call", "gap", "hunk", "tail", "tail_old", "tail_new", "done"}
    /\ result \in {"none", "ok", "err"}
    /\ is_binary \in BOOLEAN
    /\ old_idx \in Nat
    /\ new_idx \in Nat

----------------------------------------------------------------------------
(* Properties.                                                             *)

Built == pc = "done" /\ result = "ok" /\ ~is_binary

RowBuilderEntry == entry \in {"get_file_diff", "build_full_file_side_by_side"}

\* the call is of a function that returns panes (get_ref_diff and the
\* alignment builder return ranges)
BuildsPanes == entry \notin {"get_ref_diff", "side_by_side::build"}

IsLine(row) == row.type = "Line"

IsCollapse(row) == row.type = "Collapse"

\* the Line rows of a pane, in order
PaneLines(rows) == SelectSeq(rows, IsLine)

\* the texts of the Line rows of a pane, in order
PaneTexts(rows) == [i \in 1..Len(PaneLines(rows)) |-> PaneLines(rows)[i].line.content]

\* the counts of the Collapse rows of a pane, in order
CollapseCounts(rows) ==
    [i \in 1..Len(SelectSeq(rows, IsCollapse)) |-> SelectSeq(rows, IsCollapse)[i].count]

\* all hunk lines of the call, in order
HunkLines == FlattenSeq([i \in 1..Len(hunks) |-> hunks[i].lines])

IsRemoved(line) == line.line_type = "removed"

IsAdded(line) == line.line_type = "added"

\* C1: when get_file_diff has built the panes of a file from the hunks
\* libgit2 reports for it, the Line rows of the old pane are, in order, the
\* lines of the before content, and the Line rows of the new pane are, in
\* order, the lines of the after content.
C1_Coverage ==
    (Built /\ entry = "get_file_diff") =>
        /\ PaneTexts(old_content) = OldLines
        /\ PaneTexts(new_content) = NewLines

\* the ranges tile [0, old_len) and [0, new_len)
Tiles(rs, old_len, new_len) ==
    rs # <<>> =>
        /\ rs[1].before.start = 0
        /\ rs[1].after.start = 0
        /\ \A i \in 1..(Len(rs) - 1) :
            /\ rs[i + 1].before.start = rs[i].before.end
            /\ rs[i + 1].after.start = rs[i].after.end
        /\ rs[Len(rs)].before.end = old_len
        /\ rs[Len(rs)].after.end = new_len

RefBuilt == Built /\ entry = "get_ref_diff"

\* C2: the ranges get_ref_diff returns tile both files: the first starts at
\* 0 on both sides, each starts where the one before ended, the last ends at
\* the number of lines of the old file and of the new file.
C2_Partition == RefBuilt => Tiles(ranges, Len(OldLines), Len(NewLines))

\* C3: in the panes the row builder returns, the counts of the Collapse rows
\* of the new pane add up to the number of removed hunk lines, and those of
\* the old pane to the number of added hunk lines.
C3_CollapseAccounting ==
    (Built /\ BuildsPanes) =>
        /\ SumSeq(CollapseCounts(new_content)) = Count(HunkLines, IsRemoved)
        /\ SumSeq(CollapseCounts(old_content)) = Count(HunkLines, IsAdded)

\* two flushes of one call put a Collapse row into each pane, for runs of
\* more than one line
C3_Witness ==
    /\ Built
    /\ entry = "get_file_diff"
    /\ Len(CollapseCounts(new_content)) >= 2
    /\ Len(CollapseCounts(old_content)) >= 1
    /\ \E i \in DOMAIN new_content : IsCollapse(new_content[i]) /\ new_content[i].count >= 2

\* C4: every unchanged range get_ref_diff returns has an old span and a new
\* span of the same length.
C4_UnchangedLength ==
    RefBuilt =>
        \A i \in DOMAIN ranges :
            ~ranges[i].changed =>
                ranges[i].before.end - ranges[i].before.start
                    = ranges[i].after.end - ranges[i].after.start

\* C5: for a file that is absent before and has N >= 1 lines after,
\* get_ref_diff returns exactly one range, changed, [0,0) on the old side and
\* [0,N) on the new side.
C5_PureAddition ==
    (RefBuilt /\ ~IsSome(old_file_content) /\ Len(NewLines) >= 1) =>
        /\ hunks = <<DiffHunk(0, 0, 1, Len(NewLines), hunks[1].lines)>>
        /\ ranges = <<Range(0, 0, 0, Len(NewLines), TRUE)>>

\* the rows a Collapse row of one pane points at in the other pane are the
\* Line rows of the lines it stands for
CollapsePointsAt(row, other, kind, field) ==
    /\ row.other_pane_index + row.count <= Len(other)
    /\ \A j \in 1..row.count :
        LET target == other[row.other_pane_index + j]
        IN  /\ IsLine(target)
            /\ target.line.line_type = kind
            /\ target.line[field] = Some(row.start_line + j - 1)

\* C6: at every point of the row building, and in the panes returned, each
\* Collapse row of a pane points at the rows of the other pane that hold
\* the lines it stands for: count Line rows, numbered from start_line on.
C6_CollapseIndex ==
    BuildsPanes =>
        /\ \A i \in DOMAIN old_content :
            IsCollapse(old_content[i]) =>
                CollapsePointsAt(old_content[i], new_content, "added", "new_lineno")
        /\ \A i \in DOMAIN new_content :
            IsCollapse(new_content[i]) =>
                CollapsePointsAt(new_content[i], old_content, "removed", "old_lineno")

\* a later flush has added rows behind a Collapse row stored by an earlier
\* one, and the old pane's Collapse row points behind the new pane's
C6_Witness ==
    /\ Built
    /\ RowBuilderEntry
    /\ \E i, k \in DOMAIN old_content :
        /\ i < k
        /\ IsCollapse(old_content[i])
        /\ IsCollapse(old_content[k])
        /\ old_content[i].other_pane_index > 0
    /\ \E i \in DOMAIN new_content : IsCollapse(new_content[i])

OneSidePresent == IsSome(old_file_content) # IsSome(new_file_content)

\* the content of the side that is present
PresentContent ==
    IF IsSome(new_file_content) THEN new_file_content[1] ELSE old_file_content[1]

\* the i-th line of a synthesized hunk
SynthLine(i, text) ==
    IF IsSome(new_file_content)
    THEN DiffLine("added", None, Some(i), text)
    ELSE DiffLine("removed", Some(i), None, text)

\* the texts of the lines of a hunk, in order
HunkTexts(hunk) == [i \in 1..Len(hunk.lines) |-> hunk.lines[i].content]

\* C7: with exactly one side present, get_ref_diff has at most one hunk; its
\* i-th line is the i-th line of the content, added with new number i when
\* the file is new, removed with old number i when it is deleted; the lines
\* joined by newlines are the content, and the line count of the present
\* side is the number of lines.
C7_Synthesized ==
    (RefBuilt /\ OneSidePresent) =>
        /\ Len(hunks) <= 1
        /\ \A h \in DOMAIN hunks :
            /\ Len(hunks[h].lines) = Len(Lines(PresentContent))
            /\ \A i \in DOMAIN hunks[h].lines :
                hunks[h].lines[i] = SynthLine(i, Lines(PresentContent)[i])
            /\ \E final_newline \in BOOLEAN :
                JoinLines(HunkTexts(hunks[h]), final_newline) = PresentContent
            /\ IF IsSome(new_file_content)
               THEN hunks[h].new_lines = Len(Lines(PresentContent)) /\ hunks[h].old_lines = 0
               ELSE hunks[h].old_lines = Len(Lines(PresentContent)) /\ hunks[h].new_lines = 0

\* a deleted file of two lines, the first one empty
C7_Witness ==
    /\ RefBuilt
    /\ ~IsSome(new_file_content)
    /\ Len(hunks) = 1
    /\ Len(hunks[1].lines) = 2
    /\ hunks[1].lines[1].content = <<>>
    /\ hunks[1].lines[2].old_lineno = Some(2)

\* C8: when the only side of a file that is present has no line, the hunk
\* list of the diff is empty, from get_ref_diff and from
\* get_untracked_file_diff.
C8_EmptyContent ==
    (Built /\ entry \in {"get_ref_diff", "get_untracked_file_diff"}
           /\ OneSidePresent /\ Lines(PresentContent) = <<>>) =>
        hunks = <<>>

\* the N Line rows of a new file
NewFileRows == [i \in 1..Len(NewLines) |-> LineRow(DiffLine("added", None, Some(i), NewLines[i]))]

\* the hunk list is the single hunk that adds every line of the new file
AllAddedHunk ==
    /\ Len(hunks) = 1
    /\ hunks[1].lines = AddedLines(new_file_content[1])

\* C9: for a new file of N >= 1 lines with nothing before, the old pane is
\* the one row Collapse{count: N, start_line: 1, other_pane_index: 0} and
\* the new pane is the N Line rows of the file, from
\* get_untracked_file_diff and from the row builder given the single
\* all-added hunk.
C9_NewFile ==
    (Built /\ BuildsPanes /\ ~IsSome(old_file_content)
           /\ Len(NewLines) >= 1 /\ AllAddedHunk) =>
        /\ old_content = <<CollapseRow(Len(NewLines), 1, 0)>>
        /\ new_content = NewFileRows

\* the row builder has built the panes of a new file of two lines or more
C9_Witness ==
    /\ Built
    /\ entry = "get_file_diff"
    /\ ~IsSome(old_file_content)
    /\ Len(NewLines) >= 2
    /\ AllAddedHunk
    /\ Len(new_content) = Len(NewLines)

\* the scenario a,b,c -> a,X,c: the line texts are a = 'A', b = 'B',
\* X = 'C', c = 'D'
ReplaceScenario(old_start, new_start) ==
    /\ RowBuilderEntry
    /\ OldLines = <<<<65>>, <<66>>, <<68>>>>
    /\ NewLines = <<<<65>>, <<67>>, <<68>>>>
    /\ hunks = <<DiffHunk(old_start, 1, new_start, 1,
                          <<DiffLine("removed", Some(2), None, <<66>>),
                            DiffLine("added", None, Some(2), <<67>>)>>)>>

\* old pane Line a, Line b, Collapse of count 1, Line c; new pane Line a,
\* Collapse of count 1, Line X, Line c
ReplacePanes ==
    /\ Len(old_content) = 4
    /\ PaneTexts(old_content) = <<<<65>>, <<66>>, <<68>>>>
    /\ IsCollapse(old_content[3])
    /\ old_content[3].count = 1
    /\ Len(new_content) = 4
    /\ PaneTexts(new_content) = <<<<65>>, <<67>>, <<68>>>>
    /\ IsCollapse(new_content[2])
    /\ new_content[2].count = 1

\* C10 as stated: with the hunk old_start = 1, new_start = 1.
C10_Original == (Built /\ ReplaceScenario(1, 1)) => ReplacePanes

\* C10: for before = a,b,c and after = a,X,c with the single hunk
\* old_start = 2, old_lines = 1, new_start = 2, new_lines = 1 (the 1-based
\* starts libgit2 reports), lines Removed b (old 2), Added X (new 2), the old
\* pane is Line a, Line b, Collapse of count 1, Line c and the new pane is
\* Line a, Collapse of count 1, Line X, Line c.
C10_Replace == (Built /\ ReplaceScenario(2, 2)) => ReplacePanes

C10_Witness == Built /\ entry = "get_file_diff" /\ ReplaceScenario(2, 2)

----------------------------------------------------------------------------
(* Identical files, binary files, missing files.                           *)

\* the rows of the lines of an unchanged file, old pane and new pane
PlainOldRows(ls) == [i \in 1..Len(ls) |-> LineRow(DiffLine("context", Some(i), None, ls[i]))]

PlainNewRows(ls) == [i \in 1..Len(ls) |-> LineRow(DiffLine("context", None, Some(i), ls[i]))]

BothPresent == IsSome(old_file_content) /\ IsSome(new_file_content)

\* C11 as stated: with the same lines on both sides and no hunk, the panes
\* are the Line rows of the file and the ranges are one unchanged range over
\* the full length of both sides.
C11_Original ==
    /\ (Built /\ RowBuilderEntry /\ hunks = <<>> /\ OldLines = NewLines) =>
            /\ old_content = PlainOldRows(OldLines)
            /\ new_content = PlainNewRows(NewLines)
    /\ (RefBuilt /\ BothPresent /\ hunks = <<>> /\ OldLines = NewLines) =>
            ranges = <<Range(0, Len(OldLines), 0, Len(NewLines), FALSE)>>

\* C11: with the same lines on both sides and no hunk, both panes are the
\* Line rows of the file, one per line in order, without a Collapse row; the
\* ranges are one unchanged range over the full length of both sides when
\* the file has a line, and no range when it has none.
C11_Identical ==
    /\ (Built /\ RowBuilderEntry /\ hunks = <<>> /\ OldLines = NewLines) =>
            /\ old_content = PlainOldRows(OldLines)
            /\ new_content = PlainNewRows(NewLines)
            /\ CollapseCounts(old_content) = <<>>
            /\ CollapseCounts(new_content) = <<>>
    /\ (RefBuilt /\ BothPresent /\ hunks = <<>> /\ OldLines = NewLines) =>
            ranges = IF Len(OldLines) >= 1
                     THEN <<Range(0, Len(OldLines), 0, Len(NewLines), FALSE)>>
                     ELSE <<>>

\* the row builder has built the panes of an unchanged file of three lines
C11_Witness ==
    /\ Built
    /\ entry = "get_file_diff"
    /\ hunks = <<>>
    /\ Len(OldLines) >= 3
    /\ OldLines = NewLines
    /\ Len(new_content) = Len(NewLines)

\* get_ref_diff has built the range of an unchanged file of three lines
C11_WitnessRanges ==
    /\ RefBuilt
    /\ BothPresent
    /\ hunks = <<>>
    /\ Len(OldLines) >= 3
    /\ OldLines = NewLines
    /\ Len(ranges) = 1

\* a content that holds a null byte
HasNul(content) == IsSome(content) /\ \E i \in DOMAIN content[1] : content[1][i] = 0

\* C12: a diff result with the binary flag has no hunks, no rows in either
\* pane and no ranges, and no step of the row building was taken for it;
\* get_ref_diff sets the flag when a side's content holds a null byte.
C12_Binary ==
    /\ is_binary =>
            /\ pc = "done"
            /\ hunks = <<>>
            /\ old_content = <<>>
            /\ new_content = <<>>
            /\ ranges = <<>>
            /\ old_idx = 0 /\ new_idx = 0 /\ hunk_i = 0 /\ line_i = 0
            /\ pending_removed = <<>> /\ pending_added = <<>>
    /\ (entry = "get_ref_diff" /\ pc = "done" /\ result = "ok"
            /\ (HasNul(old_file_content) \/ HasNul(new_file_content))) =>
            is_binary

\* get_ref_diff has flagged a file with text before and a null byte after
C12_WitnessBoth ==
    /\ entry = "get_ref_diff"
    /\ pc = "done"
    /\ is_binary
    /\ BothPresent
    /\ ~HasNul(old_file_content)
    /\ Lines(old_file_content[1]) # <<>>
    /\ HasNul(new_file_content)

\* get_ref_diff has flagged a new file whose text has a line and then a null
\* byte
C12_Witness ==
    /\ entry = "get_ref_diff"
    /\ pc = "done"
    /\ is_binary
    /\ IsSome(new_file_content)
    /\ Len(new_file_content[1]) >= 3
    /\ new_file_content[1][1] # 0
    /\ new_file_content[1][2] = 10

DirectBuilt == Built /\ entry = "side_by_side::build"

\* C13: with no hunks the alignment builder returns no range when both
\* lengths are 0, and exactly one range, changed, [0, old_len) and
\* [0, new_len), when exactly one of the lengths is 0.
C13_NoHunks ==
    (DirectBuilt /\ hunks = <<>>) =>
        /\ (Len(OldLines) = 0 /\ Len(NewLines) = 0) => ranges = <<>>
        /\ ((Len(OldLines) = 0) # (Len(NewLines) = 0)) =>
                ranges = <<Range(0, Len(OldLines), 0, Len(NewLines), TRUE)>>

\* the builder was called with no hunks for an old side without lines and a
\* new side of two lines
C13_Witness ==
    /\ DirectBuilt
    /\ hunks = <<>>
    /\ Len(OldLines) = 0
    /\ Len(NewLines) = 2
    /\ Len(ranges) = 1

\* the builder was called with no hunks for two sides without lines
C13_WitnessEmpty ==
    /\ DirectBuilt
    /\ hunks = <<>>
    /\ Len(OldLines) = 0
    /\ Len(NewLines) = 0

\* the hunk of a file that is on one side only: every line of it, added or
\* removed
OneSideHunks ==
    /\ Len(hunks) = (IF Lines(PresentContent) = <<>> THEN 0 ELSE 1)
    /\ \A h \in DOMAIN hunks :
        /\ Len(hunks[h].lines) = Len(Lines(PresentContent))
        /\ \A i \in DOMAIN hunks[h].lines :
            hunks[h].lines[i].line_type =
                (IF IsSome(new_file_content) THEN "added" ELSE "removed")

\* C14: get_ref_diff returns an error exactly when the file is absent on
\* both sides; otherwise its hunks are the synthesized ones when one side is
\* absent and the ones of the line diff when both sides are present;
\* synthesize_hunks gives no hunk for two present or two absent sides.
C14_HunkSource ==
    (entry = "get_ref_diff" /\ pc = "done") =>
        /\ (result = "err") = (~IsSome(old_file_content) /\ ~IsSome(new_file_content))
        /\ (result = "ok" /\ ~is_binary /\ OneSidePresent) => OneSideHunks
        /\ (result = "ok" /\ ~is_binary /\ BothPresent) => hunks = git_hunks
        /\ ~OneSidePresent => synthesize_hunks(old_file_content, new_file_content) = <<>>

\* get_ref_diff has failed for a file that is on neither side
C14_Witness ==
    /\ entry = "get_ref_diff"
    /\ pc = "done"
    /\ result = "err"
    /\ ~IsSome(old_file_content)
    /\ ~IsSome(new_file_content)

\* get_ref_diff has taken the hunks of the line diff for two present sides
C14_WitnessBoth == RefBuilt /\ BothPresent /\ Len(hunks) >= 2

\* get_ref_diff has synthesized the hunk of a deleted file
C14_WitnessOne == RefBuilt /\ ~IsSome(new_file_content) /\ Len(hunks) = 1

----------------------------------------------------------------------------
(* The action executor.                                                    *)

\* action-complete was emitted for run r
Completed(r) == r \in DOMAIN runs /\ events[r] # <<>>

\* C15: every call of run_action leads to an action-complete event of its
\* run, and that event is the only one: the task emits it after the process
\* has exited, after a spawn failure or after a stop, given that the runtime
\* runs the task and the process ends.
C15_LeadsToComplete ==
    \A r \in 1..MaxRuns : (r \in DOMAIN runs) ~> (Len(events[r]) = 1)

\* the rest of C15: no run has two events, an event carries the id of its
\* run, the handle of the run is out of RUNNING_ACTIONS when the event is
\* emitted, and success is true only with exit code 0
C15_EventOnce ==
    \A r \in DOMAIN runs :
        /\ Len(events[r]) <= 1
        /\ (runs[r].pc = "done") = (events[r] # <<>>)
        /\ runs[r].pc \in {"emit", "done"} =>
                RUNNING_ACTIONS[runs[r].execution_id] # Some(r)
        /\ \A i \in DOMAIN events[r] :
            /\ events[r][i].execution_id = runs[r].execution_id
            /\ events[r][i].success => events[r][i].exit_code = Some(0)

\* the task of a run waits for the end of the output of a child that has
\* ended
C15_Stuck == \E r \in DOMAIN runs : runs[r].pc = "drain" /\ runs[r].child = "exited"

\* stop_action returned Ok for the handle of run r
StoppedRun(r) == r \in DOMAIN runs /\ runs[r].stop_rx = "sent"

\* a call of stop_action: Ok exactly with a handle under the id, which is
\* then gone, and no other id is touched
StopStep ==
    \A id \in ExecutionIds :
        StopAction(id) =>
            /\ last_stop'.execution_id = id
            /\ (last_stop'.returned = "Ok") = IsSome(RUNNING_ACTIONS[id])
            /\ (last_stop'.returned = "Err") = ~IsSome(RUNNING_ACTIONS[id])
            /\ ~IsSome(RUNNING_ACTIONS'[id])
            /\ \A other \in ExecutionIds \ {id} :
                    RUNNING_ACTIONS'[other] = RUNNING_ACTIONS[other]

\* a handle is in RUNNING_ACTIONS only for a run of that id that was started,
\* has not been stopped and has not completed
HandleLive ==
    \A id \in ExecutionIds :
        IsSome(RUNNING_ACTIONS[id]) =>
            LET r == RUNNING_ACTIONS[id][1] IN
                /\ r \in DOMAIN runs
                /\ runs[r].execution_id = id
                /\ ~StoppedRun(r)
                /\ runs[r].pc \notin {"emit", "done"}

\* C16 as stated: the event of every action that stop_action returned Ok for
\* has no exit code and success = false.
C16_Original ==
    \A r \in DOMAIN runs :
        (StoppedRun(r) /\ Completed(r)) =>
            events[r][1].exit_code = None /\ ~events[r][1].success

\* C16: stop_action(id) returns Ok exactly when a handle is stored under id
\* at the call, and removes it; it returns an error for an id never started,
\* completed or already stopped; an action whose task takes the stop in its
\* select completes with no exit code and success = false, and an action
\* whose process had ended by itself before keeps the result of the process.
C16_Stop ==
    [][/\ StopStep
       /\ HandleLive'
       /\ \A r \in DOMAIN runs' :
            /\ (runs'[r].by = "stop" /\ events'[r] # <<>>) =>
                    events'[r][1].exit_code = None /\ ~events'[r][1].success
            /\ (runs'[r].by = "wait" /\ events'[r] # <<>> /\ runs'[r].result[1].ok) =>
                    events'[r][1].exit_code \in ExitCodes]_vars

\* a stop was accepted for a running action, its task took the stop, the
\* event was emitted and a second stop of the same id was refused
C16_Witness ==
    \E r \in DOMAIN runs :
        /\ StoppedRun(r)
        /\ runs[r].by = "stop"
        /\ Completed(r)
        /\ last_stop.returned = "Err"
        /\ last_stop.execution_id = runs[r].execution_id

----------------------------------------------------------------------------
(* The claims about the plugin system. *)

\* the subscribe calls made under event_name, in call order
SubscribedUnder(event_name) == SelectSeq(subscribed, LAMBDA s : s.event_name = event_name)

\* the callbacks of the subscriptions subs, called in order with event
Callbacks(subs, event) == [i \in 1..Len(subs) |-> Call("callback", subs[i].plugin_name, event)]

\* C17: in the calls shutdown_all makes, the callbacks of all the
\* subscriptions under "shutdown" come first, each with the Shutdown event,
\* and only after the last of them the shutdown function of each plugin the
\* manager holds, once.
C17_ShutdownOrder ==
    last_call.op = "shutdown_all" =>
        LET calls == last_call.calls
            delivered == Callbacks(SubscribedUnder("shutdown"), "Shutdown")
            held == {p \in PluginNames : IsSome(plugins[p])}
        IN  /\ Len(calls) = Len(delivered) + Cardinality(held)
            /\ SubSeq(calls, 1, Len(delivered)) = delivered
            /\ \A i, j \in DOMAIN calls :
                    (calls[i].fn = "callback" /\ calls[j].fn = "shutdown") => i < j
            /\ \A p \in held :
                    \E j \in DOMAIN calls :
                        j > Len(delivered) /\ calls[j] = Call("shutdown", p, "")

\* shutdown_all ran with two subscriptions under "shutdown" and two plugins
\* held: four calls, the callbacks before the shutdown functions
C17_Witness ==
    /\ last_call.op = "shutdown_all"
    /\ Len(SubscribedUnder("shutdown")) = 2
    /\ \A p \in PluginNames : IsSome(plugins[p])
    /\ Len(last_call.calls) = 4
    /\ last_call.calls[2].fn = "callback"
    /\ last_call.calls[3].fn = "shutdown"

\* C18 as stated: a plugin the manager holds is in state Loaded only if its
\* init was called and returned 0, and a plugin whose last init returned
\* non-zero is in state Failed.
C18_LoadedInitialized ==
    \A p \in PluginNames :
        IsSome(plugins[p]) =>
            /\ plugins[p][1].state = "Loaded" => plugins[p][1].init = Some(0)
            /\ (IsSome(plugins[p][1].init) /\ plugins[p][1].init # Some(0)) =>
                    plugins[p][1].state = "Failed"

\* the half of C18 that holds: a plugin is Failed exactly when its last init
\* returned non-zero
C18_FailedInit ==
    \A p \in PluginNames :
        IsSome(plugins[p]) =>
            (plugins[p][1].state = "Failed") =
                (IsSome(plugins[p][1].init) /\ plugins[p][1].init # Some(0))

\* C19: the calls emit(event) makes are the callbacks of the subscriptions
\* made under the type name of the event, one call for each subscribe call,
\* in the order of the subscribe calls, and nothing else.
C19_EmitCalls ==
    last_call.op = "emit" =>
        last_call.calls =
            Callbacks(SubscribedUnder(event_type_name(last_call.arg)), last_call.arg)

\* a plugin subscribed twice under "startup" and emit(Startup) called it twice
C19_Witness ==
    /\ last_call.op = "emit"
    /\ last_call.arg = "Startup"
    /\ Len(last_call.calls) = 2
    /\ last_call.calls[1].plugin_name = last_call.calls[2].plugin_name
    /\ Len(SubscribedUnder("startup")) = 2

\* two plugins subscribed, one under "shutdown" and one under "Shutdown";
\* emit(Shutdown) called the first only
C19_WitnessOtherName ==
    /\ last_call.op = "emit"
    /\ last_call.arg = "Shutdown"
    /\ Len(SubscribedUnder("Shutdown")) = 1
    /\ Len(SubscribedUnder("shutdown")) = 1
    /\ Len(last_call.calls) = 1
    /\ last_call.calls[1].plugin_name = SubscribedUnder("shutdown")[1].plugin_name

\* plugin_name has registered name in the registry
RegisteredBy(registry, plugin_name, name) ==
    /\ IsSome(registry[FullName(plugin_name, name)])
    /\ registry[FullName(plugin_name, name)][1].plugin_name = plugin_name

\* no step changes what a full name maps to once it maps to something
FirstKept ==
    \A f \in FullNames :
        /\ IsSome(commands[f]) => commands'[f] = commands[f]
        /\ IsSome(items[f]) => items'[f] = items[f]

\* C20 as stated, a name being a name under a plugin: registering what the
\* plugin has registered under the name is refused without a change, what a
\* full name maps to never changes, and invoke_command of a name the plugin
\* never registered returns an error and calls no handler.
C20_Original ==
    [][/\ FirstKept
       /\ \A p \in PluginNames, c \in CommandNames :
            /\ \A h \in Handlers :
                (RegisterCommand(p, c, h) /\ RegisteredBy(commands, p, c)) =>
                    last_call'.returned = "Err" /\ commands' = commands
            /\ \A l \in Labels :
                (c \in MenuIds /\ RegisterItem(p, c, l) /\ RegisteredBy(items, p, c)) =>
                    last_call'.returned = "Err" /\ items' = items
            /\ \A payload_ok \in BOOLEAN, code \in InitCodes :
                (InvokeCommand(p, c, payload_ok, code) /\ ~RegisteredBy(commands, p, c)) =>
                    last_call'.returned = "Err" /\ last_call'.calls = <<>>]_vars

\* C20: registering under a full name "plugin:name" that the registry holds
\* is refused without a change, registering under a free one stores the
\* registration and returns Ok, what a full name maps to never changes, and
\* invoke_command under a full name the registry does not hold returns an
\* error and calls no handler; under a full name it holds it calls the
\* handler stored there and no other.
C20_Registry ==
    [][/\ FirstKept
       /\ \A p \in PluginNames, c \in CommandNames :
            /\ \A h \in Handlers :
                RegisterCommand(p, c, h) =>
                    IF IsSome(commands[FullName(p, c)])
                    THEN last_call'.returned = "Err" /\ commands' = commands
                    ELSE /\ last_call'.returned = "Ok"
                         /\ commands'[FullName(p, c)] =
                                Some([plugin_name |-> p, handler |-> h.handler,
                                      context |-> h.context])
                         /\ \A f \in FullNames \ {FullName(p, c)} : commands'[f] = commands[f]
            /\ \A l \in Labels :
                (c \in MenuIds /\ RegisterItem(p, c, l)) =>
                    IF IsSome(items[FullName(p, c)])
                    THEN last_call'.returned = "Err" /\ items' = items
                    ELSE /\ last_call'.returned = "Ok"
                         /\ items'[FullName(p, c)] =
                                Some([plugin_name |-> p, id |-> c, label |-> l])
                         /\ \A f \in FullNames \ {FullName(p, c)} : items'[f] = items[f]
            /\ \A payload_ok \in BOOLEAN, code \in InitCodes :
                InvokeCommand(p, c, payload_ok, code) =>
                    /\ commands' = commands
                    /\ IF IsSome(commands[FullName(p, c)])
                       THEN \A i \in DOMAIN last_call'.calls :
                                last_call'.calls[i].fn = commands[FullName(p, c)][1].handler
                       ELSE last_call'.returned = "Err" /\ last_call'.calls = <<>>]_vars

\* a second registration of a command under a full name was refused and the
\* registry holds a registration under that full name
C20_Witness ==
    /\ last_call.op = "register_command"
    /\ last_call.returned = "Err"
    /\ IsSome(commands[FullName(last_call.arg[1], last_call.arg[2])])

\* invoke_command called the handler one plugin registered, for another
\* plugin that registered nothing under the name
C20_WitnessShared ==
    /\ last_call.op = "invoke_command"
    /\ Len(last_call.calls) = 1
    /\ last_call.calls[1].plugin_name # last_call.arg[1]

----------------------------------------------------------------------------
(* The claims about the review store, the project store and the chat store. *)

\* what get(diff) returns
GetReview(diff) == GetFrom(reviews, reviewed_files, comments, edits, diff)

NoChildren == [reviewed |-> {}, comments |-> {}, edits |-> {}]

\* the files of diff whose last call was mark_reviewed
LastMarked(diff) == {f \in FilePaths : marks[diff][f] = "mark_reviewed"}

\* C21: after every call the reviewed set of a stored review is the set of
\* files whose last call, of mark_reviewed, unmark_reviewed and a delete of
\* the review, was mark_reviewed, and without a stored review
\* there is no such file; marking a marked file and unmarking an unmarked
\* one leave reviewed_files as it was.
C21_Reviewed ==
    [][/\ \A diff \in DiffIds :
            IF IsSome(GetReview(diff)')
            THEN GetReview(diff)'[1].reviewed = LastMarked(diff)'
            ELSE LastMarked(diff)' = {}
       /\ (Insert(1) /\ store_calls[1].op = "mark_reviewed"
                /\ <<store_calls[1].id, store_calls[1].arg>> \in reviewed_files) =>
            reviewed_files' = reviewed_files
       /\ \A diff \in DiffIds, f \in FilePaths :
            (UnmarkReviewed(1, diff, f) /\ <<diff, f>> \notin reviewed_files) =>
                reviewed_files' = reviewed_files]_vars

\* f2 of d1 is marked and f1, marked or not before, was unmarked last
C21_Witness ==
    /\ store_calls[1] = StoreCall("unmark_reviewed", "d1", "f1", "idle", "Ok")
    /\ marks["d1"] = [f \in FilePaths |-> IF f = "f1" THEN "unmark_reviewed" ELSE "mark_reviewed"]
    /\ GetReview("d1") = Some([reviewed |-> {"f2"}, comments |-> {}, edits |-> {}])
    /\ GetReview("d2") # None

\* no row of a child table is without its review
NoOrphans ==
    /\ \A r \in reviewed_files : r[1] \in reviews
    /\ \A r \in comments \cup edits : r.review_id \in reviews

\* C22: delete(id) leaves no review under id and no reviewed file, comment
\* or edit of it, and leaves the other reviews as they were; no child row
\* is ever without its review, so a review that is created for the id
\* later starts with nothing.
C22_Delete ==
    [][/\ NoOrphans'
       /\ \A diff \in DiffIds :
            /\ Delete(1, diff) =>
                /\ GetReview(diff)' = None
                /\ Children(reviewed_files', comments', edits', diff) = NoChildren
                /\ \A other \in DiffIds \ {diff} : GetReview(other)' = GetReview(other)
            /\ (diff \notin reviews /\ diff \in reviews') =>
                GetReview(diff)' = Some(NoChildren)]_vars

\* d1, with f1 marked or unmarked before, was deleted: no review, no row
\* of d1, while d2 keeps its mark, its comment and its edit
C22_Witness ==
    /\ store_calls[1] = StoreCall("delete", "d1", "", "idle", "Ok")
    /\ marks["d1"]["f1"] = "deleted"
    /\ GetReview("d1") = None
    /\ Children(reviewed_files, comments, edits, "d1") = NoChildren
    /\ GetReview("d2") = Some([reviewed |-> {"f1"}, comments |-> {"c2"}, edits |-> {"e1"}])

\* d1 was deleted and a comment added to it afterwards: the review holds
\* that comment alone
C22_WitnessLater ==
    /\ store_calls[1] = StoreCall("add_comment", "d1", "c1", "idle", "Ok")
    /\ marks["d1"]["f1"] = "deleted"
    /\ GetReview("d1") = Some([reviewed |-> {}, comments |-> {"c1"}, edits |-> {}])

\* the review with the item of the call added
WithItem(review, op, arg) ==
    CASE op = "mark_reviewed" -> [review EXCEPT !.reviewed = @ \cup {arg}]
      [] op = "add_comment" -> [review EXCEPT !.comments = @ \cup {arg}]
      [] op = "add_edit" -> [review EXCEPT !.edits = @ \cup {arg}]

\* C23: add_comment, mark_reviewed and add_edit on a diff without a review
\* first create the empty review, and when they return Ok get returns the
\* review with the item added to what it held, for a new review the item
\* alone; get, unmark_reviewed and delete_comment leave table reviews as
\* it is.
C23_Creates ==
    [][/\ \A diff \in DiffIds :
            (store_calls[1].pc = "idle" /\ store_calls'[1].pc = "insert"
                /\ store_calls'[1].id = diff /\ diff \notin reviews) =>
                    /\ store_calls'[1].op \in {"add_comment", "mark_reviewed", "add_edit"}
                    /\ GetReview(diff)' = Some(NoChildren)
       /\ (store_calls[1].pc = "idle"
                /\ store_calls'[1].op \in {"get", "unmark_reviewed", "delete_comment"}) =>
            reviews' = reviews
       /\ (store_calls[1].pc = "insert" /\ store_calls'[1].returned = "Ok") =>
            /\ IsSome(GetReview(store_calls[1].id))
            /\ GetReview(store_calls[1].id)' =
                    Some(WithItem(GetReview(store_calls[1].id)[1],
                                  store_calls[1].op, store_calls[1].arg))]_vars

\* add_edit on d2, which had no review, returned Ok and get returns the
\* review with that edit alone
C23_Witness ==
    /\ store_calls[1] = StoreCall("add_edit", "d2", "e1", "idle", "Ok")
    /\ GetReview("d2") = Some([reviewed |-> {}, comments |-> {}, edits |-> {"e1"}])
    /\ marks["d2"] = [f \in FilePaths |-> ""]
    /\ GetReview("d1") = None

\* unmark_reviewed on a diff without a review returned Ok and there is
\* still no review
C23_WitnessNone ==
    /\ store_calls[1].op = "unmark_reviewed"
    /\ store_calls[1].returned = "Ok"
    /\ GetReview(store_calls[1].id) = None

\* delete_project(p) leaves no artifact of p, no session of such an
\* artifact and no context link with such an artifact
ProjectGone(p) ==
    DeleteProject(p) =>
        LET gone == ArtifactsOf(project_db, p) IN
        /\ p \notin project_db'.projects
        /\ \A a \in gone : project_db'.artifacts[a] = None
        /\ \A x \in SessionIds :
                (IsSome(project_db.sessions[x]) /\ project_db.sessions[x][1] \in gone) =>
                    project_db'.sessions[x] = None
        /\ \A l \in project_db'.artifact_context : l[1] \notin gone /\ l[2] \notin gone

\* delete_project(p) leaves the rows that do not hang off p: the other
\* projects, the sessions of their artifacts, the links between them
OthersKept(p) ==
    DeleteProject(p) =>
        LET gone == ArtifactsOf(project_db, p) IN
        /\ project_db'.projects = project_db.projects \ {p}
        /\ \A x \in SessionIds :
                (IsSome(project_db.sessions[x]) /\ project_db.sessions[x][1] \notin gone) =>
                    project_db'.sessions[x] = project_db.sessions[x]
        /\ \A l \in project_db.artifact_context :
                (l[1] \notin gone /\ l[2] \notin gone) => l \in project_db'.artifact_context

\* delete_session(s) leaves no message of s and no tool call of such a
\* message, and the other sessions, their messages and tool calls as they were
SessionGone(x) ==
    DeleteSession(x) =>
        LET gone == {m \in chat_db.chat_messages : m.session_id = x} IN
        /\ chat_db'.chat_sessions = chat_db.chat_sessions \ {x}
        /\ chat_db'.chat_messages = chat_db.chat_messages \ gone
        /\ chat_db'.chat_tool_calls =
                {r \in chat_db.chat_tool_calls : \A m \in gone : r.message_id # m.id}

\* C24 as stated: what hangs off the deleted project or session is gone,
\* and every row of another project or session is as it was.
C24_Original ==
    [][/\ \A p \in ProjectIds :
            /\ ProjectGone(p)
            /\ OthersKept(p)
            /\ DeleteProject(p) =>
                \A a \in Artifacts(project_db) \ ArtifactsOf(project_db, p) :
                    project_db'.artifacts[a] = project_db.artifacts[a]
       /\ \A x \in ChatSessionIds : SessionGone(x)]_vars

\* C24: what hangs off the deleted project or session is gone; the rows of
\* other projects and sessions are as they were, but for the artifacts of
\* other projects whose parent was an artifact of the deleted project:
\* their parent_artifact_id is now NULL.
C24_Cascade ==
    [][/\ \A p \in ProjectIds :
            /\ ProjectGone(p)
            /\ OthersKept(p)
            /\ DeleteProject(p) =>
                \A a \in Artifacts(project_db) \ ArtifactsOf(project_db, p) :
                    LET row == project_db.artifacts[a][1] IN
                    project_db'.artifacts[a] =
                        IF IsSome(row.parent_artifact_id)
                            /\ row.parent_artifact_id[1] \in ArtifactsOf(project_db, p)
                        THEN Some([row EXCEPT !.parent_artifact_id = None])
                        ELSE Some(row)
       /\ \A x \in ChatSessionIds : SessionGone(x)]_vars

\* delete_project took an artifact with it and set the parent of an
\* artifact of another project to NULL
C24_Witness ==
    /\ project_db.cascade.artifacts # {}
    /\ \E a \in project_db.cascade.set_null :
            /\ IsSome(project_db.artifacts[a])
            /\ project_db.artifacts[a][1].parent_artifact_id = None
            /\ project_db.artifacts[a][1].project_id \in project_db.projects

\* two messages were added; delete_session took the first with its tool
\* call and left the second, of the other session, with its tool call
C24_WitnessChat ==
    /\ chat_db.sequence = 2
    /\ Cardinality(chat_db.chat_sessions) = 1
    /\ chat_db.chat_messages = {[id |-> 2, session_id |-> "s2"]}
    /\ chat_db.chat_tool_calls = {[id |-> "t2", message_id |-> 2]}

----------------------------------------------------------------------------
(* The pending buffers of the row builder and their flush.                 *)

\* a row as the reader of a pane sees it: a Collapse by its count and its
\* start_line
Shown(row) ==
    IF IsCollapse(row)
    THEN [type |-> "Collapse", count |-> row.count, start_line |-> row.start_line]
    ELSE row

ShownRows(rows) == [i \in 1..Len(rows) |-> Shown(rows[i])]

\* the hunk line the row builder is about to process, if the hunk has one left
AtLine(line_type) ==
    /\ pc = "hunk"
    /\ line_i < Len(CurrentHunk.lines)
    /\ CurrentLine.line_type = line_type

AtHunkEnd == pc = "hunk" /\ line_i = Len(CurrentHunk.lines)

\* the steps that call flush_pending_changes
Flushing == AtLine("context") \/ AtHunkEnd \/ (AtLine("removed") /\ pending_added # <<>>)

\* the rows a pane has gained in the step, without the last k of them
Gained(before, after, k) == SubSeq(after, Len(before) + 1, Len(after) - k)

\* C25: a flush with m buffered removed lines and n buffered added lines
\* appends to the old pane the m removed lines as Line rows and then, if
\* n > 0, one Collapse of count n whose start_line is the new number of the
\* first added line; it appends to the new pane, if m > 0, one Collapse of
\* count m whose start_line is the old number of the first removed line, and
\* then the n added lines as Line rows; after it both buffers are empty (the
\* removed line that forced the flush is buffered next), and with both
\* buffers empty it adds no row.
C25_Flush ==
    [][Flushing =>
        LET k == IF AtLine("context") THEN 1 ELSE 0
            old_collapse ==
                IF pending_added # <<>>
                THEN <<[type |-> "Collapse", count |-> Len(pending_added),
                        start_line |-> pending_added[1].new_lineno[1]]>>
                ELSE <<>>
            new_collapse ==
                IF pending_removed # <<>>
                THEN <<[type |-> "Collapse", count |-> Len(pending_removed),
                        start_line |-> pending_removed[1].old_lineno[1]]>>
                ELSE <<>>
        IN  /\ SubSeq(old_content', 1, Len(old_content)) = old_content
            /\ SubSeq(new_content', 1, Len(new_content)) = new_content
            /\ ShownRows(Gained(old_content, old_content', k))
                   = LineRows(pending_removed) \o old_collapse
            /\ ShownRows(Gained(new_content, new_content', k))
                   = new_collapse \o LineRows(pending_added)
            /\ pending_added' = <<>>
            /\ pending_removed' = IF AtLine("removed") THEN <<CurrentLine>> ELSE <<>>]_vars

\* a flush of two removed lines and one added line has happened: the old
\* pane ends with the two removed rows and a Collapse of count 1, the new
\* pane with a Collapse of count 2 and the added row
C25_Witness ==
    /\ pc \in {"gap", "tail"}
    /\ pending_removed = <<>>
    /\ pending_added = <<>>
    /\ Len(old_content) >= 3
    /\ Len(new_content) >= 2
    /\ LET o == Len(old_content)
           n == Len(new_content)
       IN  /\ IsLine(old_content[o - 2]) /\ IsRemoved(old_content[o - 2].line)
           /\ IsLine(old_content[o - 1]) /\ IsRemoved(old_content[o - 1].line)
           /\ IsCollapse(old_content[o]) /\ old_content[o].count = 1
           /\ IsCollapse(new_content[n - 1]) /\ new_content[n - 1].count = 2
           /\ IsLine(new_content[n]) /\ IsAdded(new_content[n].line)

\* a flush of buffers that were both empty: the end of a hunk whose last
\* line is a context line
C25_WitnessEmpty ==
    /\ AtHunkEnd
    /\ CurrentHunk.lines # <<>>
    /\ CurrentHunk.lines[Len(CurrentHunk.lines)].line_type = "context"

\* the hunk lines processed last, as many as the buffers hold
LastProcessed ==
    SubSeq(CurrentHunk.lines,
           line_i - Len(pending_removed) - Len(pending_added) + 1, line_i)

\* the buffers hold the lines processed last, the removed ones before the
\* added ones
BufferedRun ==
    pc = "hunk" =>
        /\ \A i \in DOMAIN pending_removed : IsRemoved(pending_removed[i])
        /\ \A i \in DOMAIN pending_added : IsAdded(pending_added[i])
        /\ pending_removed \o pending_added = LastProcessed

\* C26: inside a hunk, a Removed line that arrives while added lines are
\* pending is buffered only after a flush, which puts the pending lines
\* into the panes and leaves the Removed line alone in the buffers; an
\* Added line is buffered without any row being added to a pane.  So no line
\* is ever pushed onto pending_removed with pending_added non-empty, and
\* the two buffers always hold one run of removed lines followed by one run
\* of added lines, the lines of the hunk processed last.
C26_RemovedFlushes ==
    [][/\ (AtLine("removed") /\ pending_added # <<>>) =>
            /\ Len(new_content') = Len(new_content) + Len(pending_added)
                                     + (IF pending_removed # <<>> THEN 1 ELSE 0)
            /\ Len(old_content') = Len(old_content) + Len(pending_removed) + 1
            /\ pending_removed' = <<CurrentLine>>
            /\ pending_added' = <<>>
       /\ AtLine("added") =>
            /\ old_content' = old_content
            /\ new_content' = new_content
            /\ pending_removed' = pending_removed
            /\ pending_added' = Append(pending_added, CurrentLine)
       /\ (AtLine("removed") /\ pending_added = <<>>) =>
            /\ old_content' = old_content
            /\ new_content' = new_content
            /\ pending_removed' = Append(pending_removed, CurrentLine)
       /\ Len(pending_removed') > 0 /\ pending_removed' # pending_removed
            => pending_added' = <<>>
       /\ BufferedRun'
      ]_vars

\* a Removed line has arrived after a Removed and an Added line of the same
\* hunk: these two are in the panes and the third is alone in the buffers
C26_Witness ==
    /\ pc = "hunk"
    /\ line_i = 3
    /\ IsRemoved(CurrentHunk.lines[1])
    /\ IsAdded(CurrentHunk.lines[2])
    /\ pending_removed = <<CurrentHunk.lines[3]>>
    /\ pending_added = <<>>
    /\ Len(old_content) = 2
    /\ Len(new_content) = 2

\* added lines pile up behind removed ones without a flush
C26_WitnessRun ==
    /\ pc = "hunk"
    /\ Len(pending_removed) = 2
    /\ Len(pending_added) = 2
    /\ old_content = <<>>
    /\ new_content = <<>>

\* the lines of the Line rows of a pane that are of one type, in order
PaneLinesOf(rows, P(_)) ==
    SelectSeq([i \in 1..Len(PaneLines(rows)) |-> PaneLines(rows)[i].line], P)

\* the number of Line rows of a pane that carry the number no in the field
NumberedRows(rows, field, no) ==
    Cardinality({i \in DOMAIN rows : IsLine(rows[i]) /\ rows[i].line[field] = no})

\* C27: both pending buffers are empty after every step that emits a
\* context line of a hunk, after the end of every hunk, and from then on
\* until the row building has ended.  In the panes the row builder returns,
\* the removed hunk lines are, in hunk order, the removed Line rows of the
\* old pane and the added hunk lines, in hunk order, the added Line rows of
\* the new pane, and no other Line row of that pane carries the number of
\* one of them.
C27_Drained ==
    [][/\ (AtLine("context") \/ AtHunkEnd) =>
            pending_removed' = <<>> /\ pending_added' = <<>>
       /\ (RowBuilderEntry /\ pc' \in {"gap", "tail", "tail_old", "tail_new", "done"}) =>
            pending_removed' = <<>> /\ pending_added' = <<>>
       /\ (RowBuilderEntry /\ Built') =>
            /\ PaneLinesOf(old_content', IsRemoved) = SelectSeq(HunkLines', IsRemoved)
            /\ PaneLinesOf(new_content', IsAdded) = SelectSeq(HunkLines', IsAdded)
            /\ \A i \in DOMAIN HunkLines' :
                /\ IsRemoved(HunkLines'[i]) =>
                    NumberedRows(old_content', "old_lineno", HunkLines'[i].old_lineno) = 1
                /\ IsAdded(HunkLines'[i]) =>
                    NumberedRows(new_content', "new_lineno", HunkLines'[i].new_lineno) = 1
      ]_vars

\* the panes are returned for a hunk with a context line between a removed
\* line and an added line that a removed line follows: three flushes
C27_Witness ==
    /\ Built
    /\ RowBuilderEntry
    /\ Len(hunks) = 1
    /\ Len(hunks[1].lines) = 4
    /\ IsRemoved(hunks[1].lines[1])
    /\ hunks[1].lines[2].line_type = "context"
    /\ IsAdded(hunks[1].lines[3])
    /\ IsRemoved(hunks[1].lines[4])
    /\ Len(PaneLinesOf(old_content, IsRemoved)) = 2
    /\ Len(PaneLinesOf(new_content, IsAdded)) = 1

----------------------------------------------------------------------------
(* The unchanged regions of the row builder.                               *)

\* the row builder is outside the hunks: in the gap before a hunk or behind
\* the last hunk
OutsideHunks == pc \in {"gap", "tail", "tail_old", "tail_new"}

\* C28: when get_file_diff builds the panes from the hunks libgit2 reports,
\* every step outside the hunks that adds a row adds exactly one Line row
\* to the old pane and one Line row to the new pane and advances both
\* cursors by one; no line outside a hunk goes to one pane only.
C28_Lockstep ==
    [][(/\ entry = "get_file_diff"
        /\ OutsideHunks
        /\ (old_content' # old_content \/ new_content' # new_content)) =>
            /\ Len(old_content') = Len(old_content) + 1
            /\ Len(new_content') = Len(new_content) + 1
            /\ SubSeq(old_content', 1, Len(old_content)) = old_content
            /\ SubSeq(new_content', 1, Len(new_content)) = new_content
            /\ IsLine(old_content'[Len(old_content')])
            /\ IsLine(new_content'[Len(new_content')])
            /\ old_idx' = old_idx + 1
            /\ new_idx' = new_idx + 1
      ]_vars

----------------------------------------------------------------------------
(* The ranges of the alignment builder.                                    *)

\* the alignment builder has returned ranges for a hunk list that is not
\* empty
RangesBuilt == (RefBuilt \/ DirectBuilt) /\ hunks # <<>>

IsChanged(range) == range.changed

\* the changed range of a hunk
ChangedRange(hunk) ==
    Range(hunk.old_start, hunk.old_start + hunk.old_lines,
          hunk.new_start, hunk.new_start + hunk.new_lines, TRUE)

\* the cursors in front of hunk i: the ends of the hunk before it
CursorBehind(i) ==
    LET old_pos == IF i = 1 THEN 0 ELSE hunks[i - 1].old_start + hunks[i - 1].old_lines
        new_pos == IF i = 1 THEN 0 ELSE hunks[i - 1].new_start + hunks[i - 1].new_lines
    IN  old_pos < hunks[i].old_start \/ new_pos < hunks[i].new_start

\* the index in ranges of the changed range of hunk i
ChangedAt(i) == i + Cardinality({j \in 1..i : CursorBehind(j)})

\* C29: for a hunk list that is not empty the changed ranges of the
\* alignment builder are, in hunk order, one per hunk with the spans
\* [old_start, old_start + old_lines) and [new_start, new_start + new_lines);
\* the range in front of the changed range of a hunk is unchanged exactly
\* when a cursor is behind the start of that hunk, and no two unchanged
\* ranges follow each other.
C29_ChangedPerHunk ==
    RangesBuilt =>
        /\ SelectSeq(ranges, IsChanged) = [i \in 1..Len(hunks) |-> ChangedRange(hunks[i])]
        /\ \A i \in 1..Len(hunks) :
            /\ ChangedAt(i) <= Len(ranges)
            /\ ranges[ChangedAt(i)] = ChangedRange(hunks[i])
            /\ CursorBehind(i) => ~IsChanged(ranges[ChangedAt(i) - 1])
            /\ (~CursorBehind(i) /\ ChangedAt(i) > 1) => IsChanged(ranges[ChangedAt(i) - 1])
        /\ \A j \in 1..(Len(ranges) - 1) : IsChanged(ranges[j]) \/ IsChanged(ranges[j + 1])

\* the builder has walked two hunks with 0-based starts, the first at the
\* start of both files: no unchanged range in front of it, one between the
\* two hunks
C29_Witness ==
    /\ DirectBuilt
    /\ Len(hunks) = 2
    /\ hunks[1].old_start = 0
    /\ hunks[1].new_start = 0
    /\ Len(ranges) >= 3
    /\ IsChanged(ranges[1])
    /\ ~IsChanged(ranges[2])
    /\ IsChanged(ranges[3])

\* get_ref_diff has ranges for two hunks of libgit2
C29_WitnessRef == RefBuilt /\ Len(hunks) = 2 /\ Len(ranges) = 4

----------------------------------------------------------------------------
(* The height of the two panes.                                            *)

\* the lines a pane stands for: its Line rows and the lines its Collapse
\* rows count
PaneHeight(rows) == Len(PaneLines(rows)) + SumSeq(CollapseCounts(rows))

\* C30: when build_full_file_side_by_side returns the panes to get_file_diff,
\* which has called it with the two contents and the hunks libgit2 reports
\* for them, the number of Line rows plus the sum of the Collapse counts is
\* the same for the old pane and the new pane.
C30_Balance ==
    (Built /\ entry = "get_file_diff") => PaneHeight(old_content) = PaneHeight(new_content)

----------------------------------------------------------------------------
(* get_or_create beside the calls of another thread.                       *)

\* the part of a review that holds what the call has added
AddedTo(op) ==
    CASE op = "add_comment" -> "comments"
      [] op = "mark_reviewed" -> "reviewed"
      [] op = "add_edit" -> "edits"

\* the last call of the thread was add_comment, mark_reviewed or add_edit
\* and has returned Ok
AddedOk(t) ==
    /\ store_calls[t].pc = "idle"
    /\ store_calls[t].returned = "Ok"
    /\ store_calls[t].op \in {"add_comment", "mark_reviewed", "add_edit"}

\* C31: with get_or_create and get called from one thread and add_comment,
\* mark_reviewed, add_edit and get from another, nothing but get_or_create
\* could remove a row; so what the last add_comment, mark_reviewed or
\* add_edit of a thread has added with Ok is returned by a get of that diff,
\* whatever the interleaving.
C31_NothingLost ==
    \A t \in StoreThreads :
        AddedOk(t) =>
            /\ IsSome(GetReview(store_calls[t].id))
            /\ store_calls[t].arg \in GetReview(store_calls[t].id)[1][AddedTo(store_calls[t].op)]

====
